---- MODULE Spec2Model ----
(***************************************************************************)
(* A model of paul/loader/igor.py: the Igor Binary Wave (IBW) codec and    *)
(* the Igor packed-experiment scanner.                                     *)
(*                                                                         *)
(* Files and streams are sequences of bytes (0..255).  Integers that can   *)
(* leave the 32-bit range (the running checksum) are kept as two limbs,    *)
(* [hi, lo] standing for hi * 2^16 + lo with 0 <= lo < 2^16, so that the   *)
(* comparisons against 2^31 and the reduction modulo 2^32 of checksum()    *)
(* are computed exactly.                                                   *)
(***************************************************************************)
EXTENDS Integers, Sequences, FiniteSets, TLC

VARIABLES
    structOrder,   \* byte order held by each module-level Structure object
    ck,            \* one call of checksum(): its arguments and its result
    hd,            \* one call of wave_read_header(): its stream and outcome
    rw,            \* one wave_write() followed by wave_read_header()
    sc,            \* one run of pack_scan_tree(): stream, cursor, call stack
    up,            \* one run of pack_unpack(): worklist and files written
    nt,            \* one wave_note_generate() and the parse of its text
    wf             \* one call of wave_find(): its argument and outcome

vars == << structOrder, ck, hd, rw, sc, up, nt, wf >>

(***************************************************************************)
(* Bounds of the model.                                                    *)
(***************************************************************************)
MaxWords == 2      \* checksum(): longest buffer, in 16-bit words

(***************************************************************************)
(* Byte order.                                                             *)
(***************************************************************************)
\* sys.byteorder of the host the model is run for.
SysByteorder == "little"

Orders == {"<", ">"}

need_to_reorder_bytes(version) == (version % 256) = 0

byte_order(needToReorderBytes) ==
    LET little_endian == (SysByteorder = "little")
        le == IF needToReorderBytes THEN ~little_endian ELSE little_endian
    IN  IF le THEN "<" ELSE ">"

NativeOrder == byte_order(FALSE)
ForeignOrder == byte_order(TRUE)

(***************************************************************************)
(* Bytes <-> integers, as struct.pack / struct.unpack do for the formats   *)
(* 'h', 'H' and 'l' in a given byte order.                                 *)
(***************************************************************************)
Signed16(u) == IF u >= 32768 THEN u - 65536 ELSE u

\* The unsigned 16-bit value held by the two bytes at b[i], b[i+1].
U16At(b, i, o) ==
    IF o = "<" THEN b[i] + 256 * b[i + 1] ELSE b[i + 1] + 256 * b[i]

I16At(b, i, o) == Signed16(U16At(b, i, o))

\* The signed 32-bit value held by the four bytes at b[i..i+3].
I32At(b, i, o) ==
    LET b0 == IF o = "<" THEN b[i]     ELSE b[i + 3]
        b1 == IF o = "<" THEN b[i + 1] ELSE b[i + 2]
        b2 == IF o = "<" THEN b[i + 2] ELSE b[i + 1]
        b3 == IF o = "<" THEN b[i + 3] ELSE b[i]
        top == IF b3 >= 128 THEN b3 - 256 ELSE b3
    IN  b0 + 256 * b1 + 65536 * b2 + 16777216 * top

Pack16(v, o) ==
    LET u == v % 65536
    IN  IF o = "<" THEN << u % 256, u \div 256 >> ELSE << u \div 256, u % 256 >>

Pack32(v, o) ==
    LET lo == v % 65536
        hi == ((v - lo) \div 65536) % 65536
        le == << lo % 256, lo \div 256, hi % 256, hi \div 256 >>
    IN  IF o = "<" THEN le ELSE << le[4], le[3], le[2], le[1] >>

Zeros(n) == [i \in 1..n |-> 0]

\* The value of a one-element set: binds an intermediate result once.
TheOnly(S) == CHOOSE x \in S : TRUE

\* The sum of s[lo..hi], by halving.
RECURSIVE SumRange(_, _, _)
SumRange(s, lo, hi) ==
    IF lo > hi THEN 0
    ELSE IF lo = hi THEN s[lo]
    ELSE LET mid == (lo + hi) \div 2
         IN  SumRange(s, lo, mid) + SumRange(s, mid + 1, hi)

SumSeq(s) == TheOnly({ SumRange(v, 1, Len(v)) : v \in { s } })

(***************************************************************************)
(* Two-limb integers: [hi, lo] is hi * 2^16 + lo, 0 <= lo < 2^16.          *)
(***************************************************************************)
Limb(h, l) == [hi |-> h, lo |-> l]

\* a + n for an ordinary (small) integer n.
LimbAdd(a, n) ==
    LET t == a.lo + n
        l == t % 65536
    IN  Limb(a.hi + ((t - l) \div 65536), l)

\* a > 2^31
LimbGt2p31(a) == a.hi > 32768 \/ (a.hi = 32768 /\ a.lo > 0)

\* a % 2^32 (Python's %, result in [0, 2^32))
LimbMod2p32(a) == Limb(a.hi % 65536, a.lo)

\* a - 2^31
LimbSub2p31(a) == Limb(a.hi - 32768, a.lo)

\* -2^31 <= a < 2^31
LimbInInt32(a) == a.hi >= -32768 /\ a.hi < 32768

(***************************************************************************)
(* checksum(buffer, byte_order, oldcksum, numbytes)                        *)
(***************************************************************************)
Returned(v) == [raised |-> "none", value |-> v]
Raised(e) == [raised |-> e, value |-> 0]

\* x = numpy.ndarray((numbytes/2,), dtype=byte_order+'h', buffer=buffer)
ChecksumWords(buffer, order, numbytes) ==
    TheOnly({ [i \in 1..(numbytes \div 2) |-> I16At(b, 2 * i - 1, order)]
              : b \in { buffer } })

\* The folding of the total s1 and the value returned.
ChecksumFold(s1) ==
    LET s2 == IF LimbGt2p31(s1) THEN LimbMod2p32(s1) ELSE s1
        s3 == IF LimbGt2p31(s1) /\ LimbGt2p31(s2) THEN LimbSub2p31(s2) ELSE s2
        chk == s3.lo
    IN  IF ~LimbInInt32(s3)
        THEN Raised("AssertionError")
        ELSE Returned(IF chk >= 32768 THEN chk - 65536 ELSE chk)

checksum(buffer, order, oldcksum, numbytes) ==
    TheOnly({ ChecksumFold(s1) :
              s1 \in { LimbAdd(oldcksum,
                               SumSeq(ChecksumWords(buffer, order, numbytes))) } })

(***************************************************************************)
(* Structure sizes and field offsets (struct formats in standard size;     *)
(* a pointer field 'P' takes 4 bytes in the file).                         *)
(***************************************************************************)
MAXDIMS == 4
MAX_WAVE_NAME5 == 31
BinHeaderCommonSize == 2
BinHeader1Size == 8
BinHeader2Size == 16
BinHeader3Size == 18
BinHeader5Size == 64
WaveHeader2Size == 126
WaveHeader5Size == 324
PackedFileRecordHeaderSize == 8

StructNames == {"BinHeaderCommon", "BinHeader1", "BinHeader2", "BinHeader3",
                "BinHeader5", "WaveHeader2", "WaveHeader5",
                "PackedFileRecordHeader"}

StructSize(s) ==
    CASE s = "BinHeaderCommon" -> BinHeaderCommonSize
      [] s = "BinHeader1" -> BinHeader1Size
      [] s = "BinHeader2" -> BinHeader2Size
      [] s = "BinHeader3" -> BinHeader3Size
      [] s = "BinHeader5" -> BinHeader5Size
      [] s = "WaveHeader2" -> WaveHeader2Size
      [] s = "WaveHeader5" -> WaveHeader5Size
      [] s = "PackedFileRecordHeader" -> PackedFileRecordHeaderSize

\* Every Structure object is created with the native byte order.
FreshStructOrder == [s \in StructNames |-> NativeOrder]

\* Structure.set_byte_order(byte_order) on the module-level object s.
set_byte_order(so, s, o) == [so EXCEPT ![s] = o]

(***************************************************************************)
(* Doubles are carried as their IEEE-754 bit pattern, most significant     *)
(* byte first; packing in "<" order reverses the eight bytes.              *)
(***************************************************************************)
Reverse(s) == [i \in 1..Len(s) |-> s[Len(s) + 1 - i]]

PackDouble(bits, o) == IF o = ">" THEN bits ELSE Reverse(bits)

DoubleAt(b, i, o) ==
    LET raw == SubSeq(b, i, i + 7) IN IF o = ">" THEN raw ELSE Reverse(raw)

Dbl0 == << 0, 0, 0, 0, 0, 0, 0, 0 >>          \*  0.0
Dbl1 == << 63, 240, 0, 0, 0, 0, 0, 0 >>       \*  1.0
DblHalf == << 63, 224, 0, 0, 0, 0, 0, 0 >>    \*  0.5
DblM1 == << 191, 240, 0, 0, 0, 0, 0, 0 >>     \* -1.0

RECURSIVE ConcatRange(_, _, _)
ConcatRange(ss, lo, hi) ==
    IF lo > hi THEN << >>
    ELSE IF lo = hi THEN ss[lo]
    ELSE ConcatRange(ss, lo, (lo + hi) \div 2)
         \o ConcatRange(ss, (lo + hi) \div 2 + 1, hi)

\* The concatenation of the sequences in ss.
Concat(ss) == TheOnly({ ConcatRange(v, 1, Len(v)) : v \in { ss } })

(***************************************************************************)
(* BinHeader5.pack_dict / WaveHeader5.pack_dict in the byte order the      *)
(* Structure object holds.  Fields not listed in the records are the zero  *)
(* defaults of wave_init_header5 (whVersion 1, useBits and kindBits '0').  *)
(***************************************************************************)
PackFits16(v) == v >= -32768 /\ v <= 32767

PackBinHeader5(bhead, o) ==
    Pack16(bhead.version, o) \o Pack16(bhead.checksum, o)
        \o Pack32(bhead.wfmSize, o) \o Pack32(bhead.formulaSize, o)
        \o Pack32(bhead.noteSize, o) \o Zeros(48)

PackWaveHeader5(whead, o) ==
    Zeros(12) \o Pack32(whead.npnts, o) \o Pack16(whead.type, o) \o Zeros(8)
        \o Pack16(1, o) \o whead.bname \o Zeros(8)
        \o Concat([i \in 1..MAXDIMS |-> Pack32(whead.nDim[i], o)])
        \o Concat([i \in 1..MAXDIMS |-> PackDouble(whead.sfA[i], o)])
        \o Concat([i \in 1..MAXDIMS |-> PackDouble(whead.sfB[i], o)])
        \o Zeros(150) \o << 48, 48 >> \o Zeros(20) \o Zeros(4)

\* bin_struct.unpack_dict_from(b) for BinHeader5
UnpackBinHeader5(b, o) ==
    [version |-> I16At(b, 1, o), checksum |-> I16At(b, 3, o),
     wfmSize |-> I32At(b, 5, o), formulaSize |-> I32At(b, 9, o),
     noteSize |-> I32At(b, 13, o)]

\* wave_struct.unpack_dict_from(b, offset=bin_struct.size) for WaveHeader5
UnpackWaveHeader5(b, off, o) ==
    [npnts |-> I32At(b, off + 13, o), type |-> I16At(b, off + 17, o),
     bname |-> SubSeq(b, off + 29, off + 60),
     nDim |-> [i \in 1..MAXDIMS |-> I32At(b, off + 65 + 4 * i, o)],
     sfA |-> [i \in 1..MAXDIMS |-> DoubleAt(b, off + 77 + 8 * i, o)],
     sfB |-> [i \in 1..MAXDIMS |-> DoubleAt(b, off + 109 + 8 * i, o)],
     hasScale |-> TRUE]

\* BinHeader1/2/3 and WaveHeader2: the fields the decoder uses afterwards.
UnpackBinHeader123(version, b, o) ==
    [version |-> I16At(b, 1, o),
     checksum |-> I16At(b, CASE version = 1 -> 7 [] version = 2 -> 15
                                [] OTHER -> 17, o),
     wfmSize |-> IF version = 3 THEN I16At(b, 3, o) ELSE I32At(b, 3, o),
     formulaSize |-> IF version = 3 THEN I32At(b, 9, o) ELSE 0,
     noteSize |-> CASE version = 1 -> 0 [] version = 2 -> I32At(b, 7, o)
                    [] OTHER -> I32At(b, 5, o)]

UnpackWaveHeader2(b, off, o) ==
    [npnts |-> I32At(b, off + 43, o), type |-> I16At(b, off + 1, o),
     bname |-> SubSeq(b, off + 7, off + 26),
     nDim |-> [i \in 1..MAXDIMS |-> 0],
     sfA |-> [i \in 1..MAXDIMS |-> Dbl0],
     sfB |-> [i \in 1..MAXDIMS |-> Dbl0],
     hasScale |-> FALSE]

(***************************************************************************)
(* Streams: f.read(n) at position pos (0-based) and the position after it. *)
(***************************************************************************)
Min(a, b) == IF a < b THEN a ELSE b
Max(a, b) == IF a > b THEN a ELSE b

ReadBytes(stream, pos, n) ==
    IF pos >= Len(stream) THEN << >>
    ELSE IF n < 0 THEN SubSeq(stream, pos + 1, Len(stream))
    ELSE SubSeq(stream, pos + 1, Min(pos + n, Len(stream)))

PosAfterRead(stream, pos, n) == pos + Len(ReadBytes(stream, pos, n))

(***************************************************************************)
(* wave_get_reading_structs(version, byte_order)                           *)
(***************************************************************************)
\* wave_get_reading_structs with a version 5 checksum span that stops four
\* bytes early.
wave_get_reading_structs_short_span(version, bo, so) ==
    IF version \notin {1, 2, 3, 5}
    THEN [raised |-> "FormatError", bin |-> "BinHeaderCommon",
          wave |-> "BinHeaderCommon", checkSumSize |-> 0, structs |-> so]
    ELSE LET bin == CASE version = 1 -> "BinHeader1" [] version = 2 -> "BinHeader2"
                      [] version = 3 -> "BinHeader3" [] OTHER -> "BinHeader5"
             wave == IF version = 5 THEN "WaveHeader5" ELSE "WaveHeader2"
             size == StructSize(bin) + StructSize(wave)
         IN  [raised |-> "none", bin |-> bin, wave |-> wave,
              checkSumSize |-> IF version = 5 THEN size - 8 ELSE size,
              structs |-> set_byte_order(set_byte_order(so, bin, bo), wave, bo)]

wave_get_reading_structs(version, bo, so) ==
    IF version \notin {1, 2, 3, 5}
    THEN [raised |-> "FormatError", bin |-> "BinHeaderCommon",
          wave |-> "BinHeaderCommon", checkSumSize |-> 0, structs |-> so]
    ELSE LET bin == CASE version = 1 -> "BinHeader1" [] version = 2 -> "BinHeader2"
                      [] version = 3 -> "BinHeader3" [] OTHER -> "BinHeader5"
             wave == IF version = 5 THEN "WaveHeader5" ELSE "WaveHeader2"
             size == StructSize(bin) + StructSize(wave)
         IN  [raised |-> "none", bin |-> bin, wave |-> wave,
              checkSumSize |-> IF version = 5 THEN size - 4 ELSE size,
              structs |-> set_byte_order(set_byte_order(so, bin, bo), wave, bo)]

(***************************************************************************)
(* wave_read_header(f) on an open stream at position pos, with the module  *)
(* Structures in byte orders so.  The result carries the outcome, what was *)
(* decoded, the stream position and the Structures' byte orders after it.  *)
(***************************************************************************)
NoWaveInfo ==
    [npnts |-> 0, type |-> 0, bname |-> << >>,
     nDim |-> [i \in 1..MAXDIMS |-> 0], sfA |-> [i \in 1..MAXDIMS |-> Dbl0],
     sfB |-> [i \in 1..MAXDIMS |-> Dbl0], hasScale |-> FALSE]

NoBinInfo ==
    [version |-> 0, checksum |-> 0, wfmSize |-> 0, formulaSize |-> 0,
     noteSize |-> 0, tail_size |-> 0, wave_data_size |-> 0,
     tail_data |-> << >>, byte_order |-> "<"]

HeaderFailure(e, version, bo, c, pos, so) ==
    [raised |-> e, version |-> version, byte_order |-> bo, c |-> c,
     wave_info |-> NoWaveInfo, bin_info |-> NoBinInfo, name |-> << >>,
     pos |-> pos, structs |-> so]

\* The end of wave_read_header: the headers are unpacked from the buffer b.
HeaderDecoded(b, version, byteOrder, rs, pos2, bi, wi) ==
    LET tail_size == IF version = 5 THEN 4 ELSE 16
        wds == IF version = 5
               THEN bi.wfmSize - (StructSize(rs.wave) - tail_size)
               ELSE bi.wfmSize - StructSize(rs.wave)
    IN  [raised |-> "none", version |-> version, byte_order |-> byteOrder,
         c |-> 0, wave_info |-> wi,
         bin_info |->
            [version |-> bi.version, checksum |-> bi.checksum,
             wfmSize |-> bi.wfmSize, formulaSize |-> bi.formulaSize,
             noteSize |-> bi.noteSize, tail_size |-> tail_size,
             wave_data_size |-> wds,
             tail_data |-> SubSeq(b, Len(b) - tail_size + 1, Len(b)),
             byte_order |-> byteOrder],
         name |-> wi.bname, pos |-> pos2, structs |-> rs.structs]

\* wave_read_header once the buffer b is read: the checksum test, then the
\* unpacking of the two headers.
HeaderChecked(b, version, byteOrder, rs, pos2, c) ==
    LET so2 == rs.structs
        want == StructSize(rs.bin) + StructSize(rs.wave)
    IN  IF c.raised # "none"
        THEN HeaderFailure(c.raised, version, byteOrder, 0, pos2, so2)
        ELSE IF c.value # 0
        THEN HeaderFailure("VersionError", version, byteOrder, c.value, pos2, so2)
        ELSE IF Len(b) < want
        THEN HeaderFailure("struct.error", version, byteOrder, 0, pos2, so2)
        ELSE TheOnly({ HeaderDecoded(b, version, byteOrder, rs, pos2, bi, wi) :
                bi \in { IF version = 5
                         THEN UnpackBinHeader5(b, so2[rs.bin])
                         ELSE UnpackBinHeader123(version, b, so2[rs.bin]) },
                wi \in { IF version = 5
                         THEN UnpackWaveHeader5(b, StructSize(rs.bin), so2[rs.wave])
                         ELSE UnpackWaveHeader2(b, StructSize(rs.bin), so2[rs.wave]) } })

\* wave_read_header once the version is known: the rest of the two headers
\* is read after the version bytes b0.
HeaderRead(stream, pos1, b0, version, byteOrder, so1, rs) ==
    IF rs.raised # "none"
    THEN HeaderFailure(rs.raised, version, byteOrder, 0, pos1, so1)
    ELSE TheOnly({
            IF Len(b) < rs.checkSumSize
            THEN HeaderFailure("TypeError", version, byteOrder, 0,
                               pos1 + Len(b) - Len(b0), rs.structs)
            ELSE TheOnly({ HeaderChecked(b, version, byteOrder, rs,
                                         pos1 + Len(b) - Len(b0), c)
                           : c \in { checksum(b, byteOrder, Limb(0, 0),
                                              rs.checkSumSize) } })
            : b \in { b0 \o ReadBytes(stream, pos1,
                         StructSize(rs.bin) + StructSize(rs.wave)
                            - BinHeaderCommonSize) } })

\* wave_read_header once the version bytes b0 are read.
HeaderVersion(stream, pos1, b0, so0) ==
    LET version0 == I16At(b0, 1, so0["BinHeaderCommon"])
        needToReorderBytes == need_to_reorder_bytes(version0)
        byteOrder == byte_order(needToReorderBytes)
        so1 == IF needToReorderBytes
               THEN set_byte_order(so0, "BinHeaderCommon", byteOrder)
               ELSE so0
        version == IF needToReorderBytes
                   THEN I16At(b0, 1, so1["BinHeaderCommon"])
                   ELSE version0
    IN  TheOnly({ HeaderRead(stream, pos1, b0, version, byteOrder, so1, rs) :
                  rs \in { wave_get_reading_structs(version, byteOrder, so1) } })

wave_read_header(stream, pos0, so0) ==
    TheOnly({ IF Len(b0) < BinHeaderCommonSize
              THEN HeaderFailure("struct.error", 0, NativeOrder, 0,
                                 pos0 + Len(b0), so0)
              ELSE HeaderVersion(stream, pos0 + Len(b0), b0, so0)
              : b0 \in { ReadBytes(stream, pos0, BinHeaderCommonSize) } })

(***************************************************************************)
(* Harness for checksum(): the arguments are drawn in the initial state,   *)
(* the one action is the call.                                             *)
(***************************************************************************)
CkBytes == {0, 128, 255}
CkSeedHi == {-65537, -32769, -32768, -1, 0, 1, 32767, 32768, 32769, 65535,
             65536, 98304}
CkSeedLo == {0, 1, 65535}

CkBuffers == UNION {[1..n -> CkBytes] : n \in {2 * k : k \in 0..MaxWords}}

Idle == [phase |-> "idle"]

InitChecksum ==
    /\ structOrder = FreshStructOrder
    /\ \E b \in CkBuffers, o \in Orders, h \in CkSeedHi, l \in CkSeedLo,
          k \in 0..MaxWords :
          /\ 2 * k <= Len(b)
          /\ ck = [phase |-> "call", buffer |-> b, byte_order |-> o,
                   oldcksum |-> Limb(h, l), numbytes |-> 2 * k,
                   result |-> Returned(0)]
    /\ hd = Idle /\ rw = Idle /\ sc = Idle /\ up = Idle
    /\ nt = Idle /\ wf = Idle

ChecksumCall ==
    /\ ck.phase = "call"
    /\ ck' = [ck EXCEPT !.phase = "done",
                        !.result = checksum(ck.buffer, ck.byte_order,
                                            ck.oldcksum, ck.numbytes)]
    /\ UNCHANGED << structOrder, hd, rw, sc, up, nt, wf >>

NextChecksum == ChecksumCall

SpecChecksum == InitChecksum /\ [][NextChecksum]_vars

(***************************************************************************)
(* Version-5 files as they lie on disk: both headers in byte order o (the  *)
(* wave header without its last 4 bytes, the wData field), the payload,    *)
(* the note.  The checksum field makes the 16-bit words of the first       *)
(* BinHeader5.size + WaveHeader5.size - 4 bytes sum to 0 modulo 2^16.      *)
(***************************************************************************)
HeaderBytes5(bhead, whead, ob, ow) ==
    PackBinHeader5(bhead, ob) \o PackWaveHeader5(whead, ow)

CheckSumSize5 == BinHeader5Size + WaveHeader5Size - 4

IbwFile5(bhead, whead, payload, note, o) ==
    LET zero == [bhead EXCEPT !.checksum = 0]
        c == checksum(HeaderBytes5(zero, whead, o, o), o, Limb(0, 0),
                      CheckSumSize5).value
        hdr == HeaderBytes5([bhead EXCEPT !.checksum = -c], whead, o, o)
    IN  SubSeq(hdr, 1, CheckSumSize5) \o payload \o note

BName5(name) == name \o Zeros(MAX_WAVE_NAME5 + 1 - Len(name))

\* Two 1-D int16 waves of two points each, scale (1.0, -1.0) and (0.5, 0.0).
SampleWave(k) ==
    [bhead |-> [version |-> 5, checksum |-> 0, wfmSize |-> WaveHeader5Size,
                formulaSize |-> 0, noteSize |-> 0],
     whead |-> [npnts |-> 2, type |-> 16,
                bname |-> BName5(IF k = 1 THEN << 97 >> ELSE << 98, 99 >>),
                nDim |-> << 2, 0, 0, 0 >>,
                sfA |-> << IF k = 1 THEN Dbl1 ELSE DblHalf, Dbl0, Dbl0, Dbl0 >>,
                sfB |-> << IF k = 1 THEN DblM1 ELSE Dbl0, Dbl0, Dbl0, Dbl0 >>,
                hasScale |-> TRUE],
     values |-> IF k = 1 THEN << 1, 2 >> ELSE << 258, -3 >>]

SampleFile(k, o) ==
    LET w == SampleWave(k)
    IN  IbwFile5(w.bhead, w.whead,
                 Concat([i \in 1..2 |-> Pack16(w.values[i], o)]), << >>, o)

SetByte(s, i, v) == [s EXCEPT ![i] = v]

\* Byte positions (1-based) and values used to change one byte of a file.
MutPositions == {1, 2, 3, 4, 5, 77, 81, 93, 156, 363, 384, 385, 388}
MutValues == {0, 1, 2, 3, 5, 255}

HdrSources ==
    {[wave |-> k, order |-> o, at |-> 0, to |-> 0] : k \in {1, 2}, o \in Orders}
    \cup {src \in [wave : {1}, order : Orders, at : MutPositions, to : MutValues] :
            SampleFile(1, src.order)[src.at] # src.to}

HdrFiles ==
    [src \in HdrSources |->
        IF src.at = 0 THEN SampleFile(src.wave, src.order)
        ELSE SetByte(SampleFile(src.wave, src.order), src.at, src.to)]

(***************************************************************************)
(* Harness for wave_read_header(): any sequence of header reads, each of a *)
(* stream opened on one of the files above.  The Structure objects live    *)
(* as long as the process and keep their byte order between the reads.     *)
(***************************************************************************)
NoHeaderResult == HeaderFailure("none", 0, NativeOrder, 0, 0, FreshStructOrder)

HdOpen(src) ==
    [phase |-> "open", src |-> src, stream |-> HdrFiles[src],
     before |-> FreshStructOrder, result |-> NoHeaderResult]

HdIdle ==
    [phase |-> "idle", src |-> [wave |-> 1, order |-> NativeOrder,
                                at |-> 0, to |-> 0],
     stream |-> << >>, before |-> FreshStructOrder, result |-> NoHeaderResult]

InitHeader ==
    /\ structOrder = FreshStructOrder
    /\ hd = HdIdle
    /\ ck = Idle /\ rw = Idle /\ sc = Idle /\ up = Idle
    /\ nt = Idle /\ wf = Idle

\* The caller opens a stream on a file.
OpenStream ==
    /\ hd.phase = "idle"
    /\ \E src \in HdrSources : hd' = HdOpen(src)
    /\ UNCHANGED << structOrder, ck, rw, sc, up, nt, wf >>

\* The caller is done with the result and the stream.
CloseStream ==
    /\ hd.phase = "done"
    /\ hd' = HdIdle
    /\ UNCHANGED << structOrder, ck, rw, sc, up, nt, wf >>

ReadHeader ==
    /\ hd.phase = "open"
    /\ LET r == wave_read_header(hd.stream, 0, structOrder)
       IN  /\ hd' = [hd EXCEPT !.phase = "done", !.before = structOrder,
                               !.result = r]
           /\ structOrder' = r.structs
    /\ UNCHANGED << ck, rw, sc, up, nt, wf >>

NextHeader == OpenStream \/ ReadHeader \/ CloseStream

SpecHeader == InitHeader /\ [][NextHeader]_vars

HeaderOutcome(r) ==
    [raised |-> r.raised, version |-> r.version, byte_order |-> r.byte_order]

(***************************************************************************)
(* Element types.  TYPE_TABLE maps a type code to a numpy dtype; a dtype   *)
(* is named here by its numpy name.                                        *)
(***************************************************************************)
TYPE_TABLE ==
    (0 :> "None") @@ (1 :> "complex128") @@ (2 :> "float32")
    @@ (3 :> "complex64") @@ (4 :> "float64") @@ (5 :> "complex128")
    @@ (8 :> "int8") @@ (9 :> "complexInt8") @@ (16 :> "int16")
    @@ (17 :> "complexInt16") @@ (32 :> "int32") @@ (33 :> "complexInt32")
    @@ (72 :> "uint8") @@ (73 :> "complexUInt8") @@ (80 :> "uint16")
    @@ (81 :> "complexUInt16") @@ (96 :> "uint32") @@ (97 :> "complexUInt32")

ItemSize(dtype) ==
    CASE dtype \in {"int8", "uint8"} -> 1
      [] dtype \in {"int16", "uint16", "float16", "complexInt8", "complexUInt8"} -> 2
      [] dtype \in {"int32", "uint32", "float32", "complexInt16",
                    "complexUInt16"} -> 4
      [] dtype \in {"float64", "complex64", "complexInt32", "complexUInt32",
                    "None"} -> 8
      [] OTHER -> 16

\* One element as bytes in byte order o, and back (integer dtypes).
PackItem(v, dtype, o) ==
    CASE ItemSize(dtype) = 1 -> << v % 256 >>
      [] ItemSize(dtype) = 2 -> Pack16(v, o)
      [] OTHER -> Pack32(v, o)

ItemAt(b, i, dtype, o) ==
    CASE ItemSize(dtype) = 1 ->
            IF dtype = "int8" /\ b[i] >= 128 THEN b[i] - 256 ELSE b[i]
      [] ItemSize(dtype) = 2 ->
            IF dtype = "int16" THEN I16At(b, i, o) ELSE U16At(b, i, o)
      [] OTHER -> I32At(b, i, o)

RECURSIVE Product(_)
Product(s) == IF s = << >> THEN 1 ELSE Head(s) * Product(Tail(s))

(***************************************************************************)
(* Element order.  An array keeps its elements in C order (last index      *)
(* fastest); the file keeps them in Fortran order (first index fastest).   *)
(* Positions are 0-based.                                                  *)
(***************************************************************************)
\* The multi-index of Fortran position q, then its C position.
RECURSIVE FIndex(_, _)
FIndex(q, shape) ==
    IF shape = << >> THEN << >>
    ELSE << q % Head(shape) >> \o FIndex(q \div Head(shape), Tail(shape))

RECURSIVE CPos(_, _)
CPos(idx, shape) ==
    IF shape = << >> THEN 0
    ELSE Head(idx) * Product(Tail(shape)) + CPos(Tail(idx), Tail(shape))

FToC(q, shape) == CPos(FIndex(q, shape), shape)

\* The multi-index of C position p, then its Fortran position.
RECURSIVE CIndex(_, _)
CIndex(p, shape) ==
    IF shape = << >> THEN << >>
    ELSE << p \div Product(Tail(shape)) >>
            \o CIndex(p % Product(Tail(shape)), Tail(shape))

RECURSIVE FPos(_, _)
FPos(idx, shape) ==
    IF shape = << >> THEN 0
    ELSE Head(idx) + Head(shape) * FPos(Tail(idx), Tail(shape))

CToF(p, shape) == FPos(CIndex(p, shape), shape)

(***************************************************************************)
(* wave_write(wav, filename, autoname, autodir, note)                      *)
(*                                                                         *)
(* wav: [shape, dtype, data (C order), dim (delta, offset per dimension),  *)
(* name].  fpath: the file's base name when a path is given, << >> when a  *)
(* stream is given.  note: [given, text].  so: the Structures' byte orders.*)
(* The result is the outcome and the bytes written.                        *)
(***************************************************************************)
\* wname.rfind("."): the 0-based position of the last '.', -1 when none.
RECURSIVE RFindDot(_)
RFindDot(s) ==
    IF s = << >> THEN -1
    ELSE IF s[Len(s)] = 46 THEN Len(s) - 1
    ELSE RFindDot(SubSeq(s, 1, Len(s) - 1))

WaveWriteName(wav, fpath, autoname) ==
    IF autoname /\ Len(fpath) > 0
    THEN LET dot_pos == RFindDot(fpath)
         IN  IF dot_pos > 0 THEN SubSeq(fpath, 1, dot_pos) ELSE fpath
    ELSE wav.name

\* wname[:MAX_WAVE_NAME5] + (MAX_WAVE_NAME5 + 1 - len(wname)) * '\0'
WaveWriteBName(wname) ==
    SubSeq(wname, 1, Min(Len(wname), MAX_WAVE_NAME5))
        \o Zeros(Max(0, MAX_WAVE_NAME5 + 1 - Len(wname)))

\* The type code found by going through TYPE_TABLE, 0 when none matches.
WaveWriteTypeId(dtype) ==
    LET matches == {k \in DOMAIN TYPE_TABLE : TYPE_TABLE[k] = dtype}
    IN  IF matches = {} THEN 0
        ELSE CHOOSE k \in matches : \A j \in matches : j <= k

\* wave_note_generate of an info map that holds only the entry 'name': an
\* empty root section and an empty block section, each ended by the separator.
DefaultNoteText == << 10, 10 >>

WriteFailure(e) == [raised |-> e, bytes |-> << >>]

wave_write(wav, fpath, autoname, note, so) ==
    IF Len(wav.shape) > MAXDIMS THEN WriteFailure("FormatError")
    ELSE
    LET ndims == Len(wav.shape)
        size == Product(wav.shape)
        nDim == [i \in 1..MAXDIMS |-> IF i <= ndims THEN wav.shape[i] ELSE 0]
        sfA == [i \in 1..MAXDIMS |-> IF i <= ndims THEN wav.dim[i].delta ELSE Dbl0]
        sfB == [i \in 1..MAXDIMS |-> IF i <= ndims THEN wav.dim[i].offset ELSE Dbl0]
        npnts == IF ndims > 0 THEN size ELSE 0
        wname == WaveWriteName(wav, fpath, autoname)
        note_text == IF note.given THEN note.text ELSE DefaultNoteText
        whead == [npnts |-> npnts, type |-> WaveWriteTypeId(wav.dtype),
                  bname |-> WaveWriteBName(wname), nDim |-> nDim,
                  sfA |-> sfA, sfB |-> sfB, hasScale |-> TRUE]
        bhead0 == [version |-> 5, checksum |-> 0,
                   wfmSize |-> WaveHeader5Size + size * ItemSize(wav.dtype) - 4,
                   formulaSize |-> 0, noteSize |-> Len(note_text)]
        chk == checksum(HeaderBytes5(bhead0, whead, so["BinHeader5"],
                                     so["WaveHeader5"]),
                        byte_order(FALSE), Limb(0, 0),
                        BinHeader5Size + WaveHeader5Size - 4)
        bhead == [bhead0 EXCEPT !.checksum = -chk.value]
        payload == Concat([q \in 1..size |->
                      PackItem(wav.data[FToC(q - 1, wav.shape) + 1], wav.dtype,
                               NativeOrder)])
    IN  IF Len(whead.bname) # MAX_WAVE_NAME5 + 1 THEN WriteFailure("struct.error")
        ELSE IF chk.raised # "none" THEN WriteFailure(chk.raised)
        ELSE IF ~PackFits16(bhead.checksum) THEN WriteFailure("struct.error")
        ELSE [raised |-> "none",
              bytes |-> PackBinHeader5(bhead, so["BinHeader5"])
                  \o SubSeq(PackWaveHeader5(whead, so["WaveHeader5"]), 1,
                            WaveHeader5Size - 4)
                  \o payload \o note_text]

(***************************************************************************)
(* wave_read_data, wave_read_info and wave_read on a stream.               *)
(***************************************************************************)
SelectPositive(s) == SelectSeq(s, LAMBDA n : n > 0)

ReadFailure(e, pos, so) ==
    [raised |-> e, shape |-> << >>, dtype |-> "None", data |-> << >>,
     dim |-> << >>, name |-> << >>, note |-> << >>, pos |-> pos,
     structs |-> so]

\* The buffer's elements in file (Fortran) order, viewed in the native byte
\* order by the closing newbyteorder('='), rearranged to C order.
WaveElements(data_b, shape, t) ==
    LET count == Product(shape)
        elems == [q \in 1..count |->
                    ItemAt(data_b, (q - 1) * ItemSize(t) + 1, t, NativeOrder)]
    IN  [p \in 1..count |-> elems[CToF(p - 1, shape) + 1]]

\* wave_read_data: [raised, shape, dtype, data (C order), pos]
wave_read_data(stream, pos, wave_info, bin_info) ==
    IF wave_info.type \notin DOMAIN TYPE_TABLE
    THEN [raised |-> "KeyError", shape |-> << >>, dtype |-> "None",
          data |-> << >>, pos |-> pos]
    ELSE
    LET t == TYPE_TABLE[wave_info.type]
        shape == IF bin_info.version = 5 THEN SelectPositive(wave_info.nDim)
                 ELSE << wave_info.npnts >>
        more == ReadBytes(stream, pos, bin_info.wave_data_size - bin_info.tail_size)
    IN  IF bin_info.wave_data_size # wave_info.npnts * ItemSize(t)
        THEN [raised |-> "AssertionError", shape |-> << >>, dtype |-> t,
              data |-> << >>, pos |-> pos]
        ELSE IF Len(bin_info.tail_data \o more) < Product(shape) * ItemSize(t)
        THEN [raised |-> "TypeError", shape |-> shape, dtype |-> t,
              data |-> << >>, pos |-> pos + Len(more)]
        ELSE [raised |-> "none", shape |-> shape, dtype |-> t,
              data |-> TheOnly({ WaveElements(data_b, sh, t) :
                                   data_b \in { bin_info.tail_data \o more },
                                   sh \in { shape } }),
              pos |-> pos + Len(more)]

\* wave_read_info, version 5: the formula, then the note.
wave_read_info(stream, pos, bin_info) ==
    LET formula == ReadBytes(stream, pos, bin_info.formulaSize)
        pos1 == pos + Len(formula)
        note == IF bin_info.version = 1 THEN << >>
                ELSE ReadBytes(stream, pos1, bin_info.noteSize)
    IN  [formula |-> formula, note |-> note, pos |-> pos1 + Len(note)]

\* wave_read once the header h is read.
WaveReadBody(stream, h) ==
    IF h.raised # "none" THEN ReadFailure(h.raised, h.pos, h.structs)
    ELSE IF h.wave_info.type = 0
    THEN ReadFailure("NotImplementedError", h.pos, h.structs)
    ELSE TheOnly({
        IF d.raised # "none" THEN ReadFailure(d.raised, d.pos, h.structs)
        ELSE
        LET i == wave_read_info(stream, d.pos, h.bin_info)
        IN  [raised |-> "none", shape |-> d.shape, dtype |-> d.dtype,
             data |-> d.data,
             dim |-> [j \in 1..Len(d.shape) |->
                        IF h.wave_info.hasScale
                        THEN [delta |-> h.wave_info.sfA[j],
                              offset |-> h.wave_info.sfB[j]]
                        ELSE [delta |-> Dbl1, offset |-> Dbl0]],
             name |-> h.name, note |-> i.note, pos |-> i.pos,
             structs |-> h.structs]
        : d \in { wave_read_data(stream, h.pos, h.wave_info, h.bin_info) } })

wave_read(stream, so) ==
    TheOnly({ WaveReadBody(stream, h) : h \in { wave_read_header(stream, 0, so) } })

(***************************************************************************)
(* Harness for wave_write() and wave_read(): the process may first read    *)
(* headers of other files, then writes a wave and reads it back.           *)
(***************************************************************************)
Scale(a, b) == [delta |-> a, offset |-> b]

RwWaves ==
    { [shape |-> << 2 >>, dtype |-> "int16", data |-> << 1, -2 >>,
       dim |-> << Scale(Dbl1, DblM1) >>, name |-> << 97 >>],
      [shape |-> << 2, 3 >>, dtype |-> "int8", data |-> << 1, 2, 3, 4, 5, 6 >>,
       dim |-> << Scale(DblHalf, Dbl0), Scale(Dbl1, DblM1) >>,
       name |-> << 98, 99 >>],
      [shape |-> << 1, 2, 1, 2 >>, dtype |-> "int32",
       data |-> << 70000, -1, 2, 3 >>,
       dim |-> << Scale(Dbl1, Dbl0), Scale(Dbl1, Dbl0), Scale(Dbl1, Dbl0),
                  Scale(DblHalf, DblM1) >>, name |-> << 100 >>],
      [shape |-> << >>, dtype |-> "int8", data |-> << 7 >>, dim |-> << >>,
       name |-> << 97 >>],
      [shape |-> << 0 >>, dtype |-> "int8", data |-> << >>,
       dim |-> << Scale(Dbl1, Dbl0) >>, name |-> << 97 >>],
      [shape |-> << 1, 1, 1, 1, 1 >>, dtype |-> "int8", data |-> << 1 >>,
       dim |-> << Scale(Dbl1, Dbl0), Scale(Dbl1, Dbl0), Scale(Dbl1, Dbl0),
                  Scale(Dbl1, Dbl0), Scale(Dbl1, Dbl0) >>, name |-> << 97 >>],
      [shape |-> << 8 >>, dtype |-> "int16",
       data |-> << 1, 2, 3, 4, 5, 6, 7, 8 >>,
       dim |-> << Scale(Dbl1, DblM1) >>, name |-> << 120, 78 >>],
      [shape |-> << 2 >>, dtype |-> "float16", data |-> << 1, 2 >>,
       dim |-> << Scale(Dbl1, Dbl0) >>, name |-> << 97 >>],
      [shape |-> << 3 >>, dtype |-> "int8", data |-> << 1, 2, 3 >>,
       dim |-> << Scale(Dbl1, Dbl0) >>, name |-> << 97 >>] }

RwNotes ==
    { [given |-> FALSE, text |-> << >>], [given |-> TRUE, text |-> << >>],
      [given |-> TRUE, text |-> << 107, 61, 49, 10 >>] }

\* A stream (no path), or the path "t.ibw".
RwPaths == { << >>, << 116, 46, 105, 98, 119 >> }

\* Version-5 files that did not come from wave_write(): a type code outside
\* TYPE_TABLE, a point count that disagrees with wfmSize, an extent list
\* with a zero before a positive entry, and a regular 2 x 2 wave.
ForeignWave(k) ==
    [bhead |-> [version |-> 5, checksum |-> 0, wfmSize |-> WaveHeader5Size,
                formulaSize |-> 0, noteSize |-> 0],
     whead |-> [npnts |-> IF k = 1 THEN 2 ELSE IF k = 2 THEN 3 ELSE 4,
                type |-> IF k = 1 THEN 7 ELSE IF k = 2 THEN 16 ELSE 8,
                bname |-> BName5(<< 102 >>),
                nDim |-> CASE k = 1 -> << 2, 0, 0, 0 >>
                           [] k = 2 -> << 3, 0, 0, 0 >>
                           [] k = 3 -> << 0, 4, 0, 0 >>
                           [] OTHER -> << 2, 2, 0, 0 >>,
                sfA |-> << Dbl1, DblHalf, Dbl0, Dbl0 >>,
                sfB |-> << DblM1, Dbl0, Dbl0, Dbl0 >>,
                hasScale |-> TRUE],
     payload |-> << 1, 2, 3, 4 >>]

ForeignSources == 1..4

ForeignFile(k, o) ==
    LET w == ForeignWave(k)
    IN  IbwFile5(w.bhead, w.whead, w.payload, << >>, o)

\* The handle f of a call once the call is over: whether the caller gave
\* the stream, and whether the call closed it.
\* wave_write: "finally: f.close()".
HandleAfterWrite(supplied) == [supplied |-> supplied, closed |-> TRUE]

\* wave_read: "finally: if not hasattr(filename, 'read'): f.close()".
HandleAfterRead(supplied) == [supplied |-> supplied, closed |-> ~supplied]

\* The destination of wave_write before the call: no file, or a file (or
\* the caller's stream, positioned at its end) with some content.
NoFile == [exists |-> FALSE, bytes |-> << >>]

RwDests == { NoFile, [exists |-> TRUE, bytes |-> << 9, 9, 9 >>] }

\* The destination after wave_write: a path is opened with mode 'wb+',
\* which empties the file, before anything else is done; then the bytes
\* of the call are written.
DestAfterWrite(dest, fpath, out) ==
    IF fpath = << >> THEN [exists |-> TRUE, bytes |-> dest.bytes \o out.bytes]
    ELSE [exists |-> TRUE, bytes |-> out.bytes]

RwIdle ==
    [phase |-> "idle", wav |-> [shape |-> << >>, dtype |-> "None",
                                data |-> << >>, dim |-> << >>, name |-> << >>],
     fpath |-> << >>, autoname |-> TRUE, note |-> [given |-> FALSE, text |-> << >>],
     out |-> WriteFailure("none"), before |-> FreshStructOrder,
     result |-> ReadFailure("none", 0, FreshStructOrder),
     f |-> [supplied |-> FALSE, closed |-> FALSE],
     dest |-> NoFile, dest_after |-> NoFile]

InitWrite ==
    /\ structOrder = FreshStructOrder
    /\ rw = RwIdle
    /\ ck = Idle /\ hd = Idle /\ sc = Idle /\ up = Idle
    /\ nt = Idle /\ wf = Idle

\* An earlier wave_read_header() of some other file by the same process.
EarlierHeaderRead ==
    /\ rw.phase = "idle"
    /\ \E k \in {1, 2}, o \in Orders :
          structOrder' = wave_read_header(SampleFile(k, o), 0, structOrder).structs
    /\ UNCHANGED << ck, hd, rw, sc, up, nt, wf >>

WaveWrite ==
    /\ rw.phase = "idle"
    /\ \E wav \in RwWaves, fpath \in RwPaths, autoname \in BOOLEAN,
          note \in RwNotes, dest \in RwDests :
          LET out == TheOnly({ x : x \in { wave_write(wav, fpath, autoname,
                                                      note, structOrder) } })
          IN  rw' = [rw EXCEPT !.phase = "written", !.wav = wav,
                               !.fpath = fpath, !.autoname = autoname,
                               !.note = note, !.before = structOrder,
                               !.out = out,
                               !.f = HandleAfterWrite(fpath = << >>),
                               !.dest = dest,
                               !.dest_after = DestAfterWrite(dest, fpath, out)]
    /\ UNCHANGED << structOrder, ck, hd, sc, up, nt, wf >>

\* wave_read() of the file just written.
WaveRead ==
    /\ rw.phase = "written"
    /\ rw.out.raised = "none"
    /\ \E supplied \in BOOLEAN :
          LET r == TheOnly({ x : x \in { wave_read(rw.out.bytes, structOrder) } })
          IN  /\ rw' = [rw EXCEPT !.phase = "read", !.result = r,
                                  !.f = HandleAfterRead(supplied)]
              /\ structOrder' = r.structs
    /\ UNCHANGED << ck, hd, sc, up, nt, wf >>

\* wave_read() of a file that some other program wrote.
ForeignRead ==
    /\ rw.phase = "idle"
    /\ \E k \in ForeignSources, o \in Orders :
          LET file == TheOnly({ b : b \in { ForeignFile(k, o) } })
              r == TheOnly({ x : x \in { wave_read(file, structOrder) } })
          IN  /\ rw' = [rw EXCEPT !.phase = "decoded", !.before = structOrder,
                                  !.out = [raised |-> "none", bytes |-> file],
                                  !.result = r,
                                  !.f = HandleAfterRead(FALSE)]
              /\ structOrder' = r.structs
    /\ UNCHANGED << ck, hd, sc, up, nt, wf >>

\* The caller drops the array and goes on.
WaveDone ==
    /\ rw.phase \in {"written", "read", "decoded"}
    /\ rw' = RwIdle
    /\ UNCHANGED << structOrder, ck, hd, sc, up, nt, wf >>

NextWrite ==
    EarlierHeaderRead \/ WaveWrite \/ WaveRead \/ ForeignRead \/ WaveDone

SpecWrite == InitWrite /\ [][NextWrite]_vars

\* s without its trailing NUL padding.
StripNul(s) ==
    TheOnly({ SubSeq(v, 1, CHOOSE n \in 0..Len(v) :
                             /\ \A i \in (n + 1)..Len(v) : v[i] = 0
                             /\ n > 0 => v[n] # 0)
              : v \in { s } })

(***************************************************************************)
(* Packed files: pack_scan_tree().  A dict is a function from keys to      *)
(* values; a key assigned twice keeps the last value.                      *)
(***************************************************************************)
PackedFileRecordType ==
    0 :> "Unused" @@ 1 :> "Variables" @@ 2 :> "History" @@ 3 :> "Wave"
    @@ 4 :> "Recreation" @@ 5 :> "Procedure" @@ 6 :> "Unused2"
    @@ 7 :> "GetHistory" @@ 8 :> "PackedFile" @@ 9 :> "DataFolderStart"
    @@ 10 :> "DataFolderEnd" @@ 11 :> "Reserved"

\* PackedFileRecordHeader.unpack_dict_from(b) in the object's byte order o.
UnpackRecordHeader(b, o) ==
    [recordType |-> U16At(b, 1, o), version |-> I16At(b, 3, o),
     numDataBytes |-> I32At(b, 5, o)]

EmptyDict == << >>

DictSet(d, k, v) == [x \in DOMAIN d \cup {k} |-> IF x = k THEN v ELSE d[x]]

\* s.split("\0")[0]
BeforeNul(s) ==
    TheOnly({ SubSeq(v, 1, CHOOSE n \in 0..Len(v) :
                             /\ \A i \in 1..n : v[i] # 0
                             /\ n < Len(v) => v[n + 1] = 0)
              : v \in { s } })

\* One activation of pack_scan_tree: its pack_tree and num_waves, and the
\* folder name under which the caller stores the result.
ScanFrame(folder_name) ==
    [pack_tree |-> EmptyDict, num_waves |-> 0, folder_name |-> folder_name]

\* "break", then "return pack_tree": the top-level call ends the scan, a
\* recursive call hands its tree to the caller, which stores the folder.
ScanReturn(s, pos) ==
    LET n == Len(s.stack)
        top == s.stack[n]
    IN  IF n = 1
        THEN [s EXCEPT !.phase = "done", !.pos = pos, !.stack = << >>,
                       !.tree = top.pack_tree]
        ELSE [s EXCEPT !.pos = pos,
                !.stack = [SubSeq(s.stack, 1, n - 1) EXCEPT
                    ![n - 1].pack_tree =
                        DictSet(@, top.folder_name,
                                [type |-> "folder", name |-> top.folder_name,
                                 sub |-> top.pack_tree])]]

\* An exception leaves every activation; no tree is returned.
ScanRaise(s, e, pos) ==
    [s EXCEPT !.phase = "done", !.raised = e, !.pos = pos, !.stack = << >>]

\* f.seek(n, 1) on a file at position pos, then "go on" (or "break").
ScanSeek(s, pos, n, break) ==
    IF pos + n < 0 THEN ScanRaise(s, "IOError", pos)
    ELSE IF break THEN ScanReturn(s, pos + n)
    ELSE [s EXCEPT !.pos = pos + n]

\* The Wave branch with the leaf's offset taken at the record header.
ScanWave_offset_at_record_header(s, rec, wpos1, h) ==
    IF h.raised # "none" THEN ScanRaise(s, h.raised, h.pos)
    ELSE
    LET n == Len(s.stack)
        wname == h.name
        leaf == [type |-> "wave", offset |-> wpos1 - PackedFileRecordHeaderSize,
                 size |-> rec.numDataBytes, name |-> wname]
        s1 == [s EXCEPT !.stack[n].pack_tree = DictSet(@, wname, leaf),
                        !.stack[n].num_waves = @ + 1]
    IN  ScanSeek(s1, h.pos, rec.numDataBytes - (h.pos - wpos1), FALSE)

\* The Wave branch once the header h is read from wpos1.
ScanWave(s, rec, wpos1, h) ==
    IF h.raised # "none" THEN ScanRaise(s, h.raised, h.pos)
    ELSE
    LET n == Len(s.stack)
        wname == h.name
        leaf == [type |-> "wave", offset |-> wpos1,
                 size |-> rec.numDataBytes, name |-> wname]
        s1 == [s EXCEPT !.stack[n].pack_tree = DictSet(@, wname, leaf),
                        !.stack[n].num_waves = @ + 1]
    IN  ScanSeek(s1, h.pos, rec.numDataBytes - (h.pos - wpos1), FALSE)

\* The branch taken for the record header rec, read up to pos.
pack_scan_record(stream, s, so, pos, rec) ==
    LET rec_type_id == rec.recordType % 32768
    IN  IF rec_type_id >= 11
        THEN [s |-> ScanSeek(s, pos, rec.numDataBytes, FALSE), structs |-> so]
        ELSE IF PackedFileRecordType[rec_type_id] = "DataFolderStart"
        THEN TheOnly({ [s |-> [s EXCEPT !.pos = pos + Len(raw),
                                 !.stack = Append(@, ScanFrame(BeforeNul(raw)))],
                        structs |-> so]
                       : raw \in { ReadBytes(stream, pos, rec.numDataBytes) } })
        ELSE IF PackedFileRecordType[rec_type_id] = "DataFolderEnd"
        THEN [s |-> ScanSeek(s, pos, rec.numDataBytes, TRUE), structs |-> so]
        ELSE IF PackedFileRecordType[rec_type_id] = "Wave"
        THEN TheOnly({ [s |-> ScanWave(s, rec, pos, h), structs |-> h.structs] :
                       h \in { wave_read_header(stream, pos, so) } })
        ELSE [s |-> ScanSeek(s, pos, rec.numDataBytes, FALSE), structs |-> so]

\* One pass of the "while True" loop of the innermost activation, on the
\* stream at s.pos; so are the Structures' byte orders.  The result is the
\* scan state and the byte orders after it.
pack_scan_step(stream, s, so) ==
    TheOnly({ IF Len(b) < PackedFileRecordHeaderSize
              THEN [s |-> ScanReturn(s, s.pos + Len(b)), structs |-> so]
              ELSE TheOnly({ pack_scan_record(stream, s, so, s.pos + Len(b), rec) :
                     rec \in { UnpackRecordHeader(b, so["PackedFileRecordHeader"]) } })
              : b \in { ReadBytes(stream, s.pos, PackedFileRecordHeaderSize) } })

(***************************************************************************)
(* pack_unpack(filename, basedir, igordir, packtree): the files written,   *)
(* as a dict from path (a sequence of path components) to content.         *)
(***************************************************************************)
IbwSuffix == << 46, 105, 98, 119 >>

\* A file name without the ".ibw" suffix.
UnpackFileNameBare(name) == name

UnpackFileName(name) == name \o IbwSuffix

\* dst.write(src.read(branch['size'])) after src.seek(branch['offset'])
UnpackLeafBytes(stream, branch) == ReadBytes(stream, branch.offset, branch.size)

\* The writes of pack_unpack over packtree with base directory basedir: one
\* << path, content >> per wave branch, those of a folder branch being the
\* writes of the recursive call on its 'sub' tree.
RECURSIVE UnpackWrites(_, _, _)
UnpackWrites(stream, basedir, packtree) ==
    UNION { IF packtree[key].type = "folder"
            THEN UnpackWrites(stream, Append(basedir, packtree[key].name),
                              packtree[key].sub)
            ELSE { << Append(basedir, UnpackFileName(packtree[key].name)),
                      UnpackLeafBytes(stream, packtree[key]) >> }
            : key \in DOMAIN packtree }

\* The directories made by pack_unpack below the base output directory, as
\* paths: os.makedirs(basedir), which makes basedir and the directories
\* above it, is called where a wave branch is met and nowhere else.
RECURSIVE UnpackDirs(_, _)
UnpackDirs(basedir, packtree) ==
    UNION { IF packtree[key].type = "folder"
            THEN UnpackDirs(Append(basedir, packtree[key].name),
                            packtree[key].sub)
            ELSE { SubSeq(basedir, 1, n) : n \in 1..Len(basedir) }
            : key \in DOMAIN packtree }

\* The files on disk after pack_unpack; the paths written are distinct, so
\* the order of the dict's keys does not matter.
pack_unpack(stream, basedir, packtree) ==
    LET writes == UnpackWrites(stream, basedir, packtree)
    IN  [path \in { w[1] : w \in writes } |->
            (CHOOSE w \in writes : w[1] = path)[2]]

(***************************************************************************)
(* Harness for pack_scan_tree() and pack_unpack(): the process scans       *)
(* packed files one after the other and may extract a scanned one.  An     *)
(* archive is built from items, one per record.                            *)
(***************************************************************************)
PackRecord(recordType, numDataBytes, data) ==
    Pack16(recordType, NativeOrder) \o Pack16(0, NativeOrder)
    \o Pack32(numDataBytes, NativeOrder) \o data

WaveName(k) == IF k = 1 THEN << 97 >> ELSE << 98, 99 >>

F == << 102 >>
G == << 103 >>

\* The items an archive is built from.  A wave item holds SampleFile(k, o);
\* its byte "at" (if not 0) is changed to 255, only its first "cut" bytes
\* are stored, and numDataBytes is what its record header declares.
WaveItem(k, o) ==
    [kind |-> "wave", k |-> k, o |-> o, at |-> 0,
     cut |-> CheckSumSize5 + 4, numDataBytes |-> CheckSumSize5 + 4]
DamagedWaveItem(k, o) == [WaveItem(k, o) EXCEPT !.at = 77]
ShortWaveItem(k, o, n) == [WaveItem(k, o) EXCEPT !.cut = n, !.numDataBytes = n]
SizedWaveItem(k, o, n) == [WaveItem(k, o) EXCEPT !.numDataBytes = n]
\* A folder start (9) or end (10) record, or one of another type, with the
\* bytes stored after the header and the numDataBytes declared.
FolderItem(name) ==
    [kind |-> "folder", recordType |-> 9, data |-> name \o << 0 >>,
     numDataBytes |-> Len(name) + 1]
EndItem ==
    [kind |-> "end", recordType |-> 10, data |-> << >>, numDataBytes |-> 0]
OtherItem(recordType, numDataBytes, n) ==
    [kind |-> "other", recordType |-> recordType, data |-> Zeros(n),
     numDataBytes |-> numDataBytes]

PackItems ==
    << << FolderItem(F), WaveItem(1, "<"), EndItem, WaveItem(2, "<") >>,
       << FolderItem(F), FolderItem(G), WaveItem(1, "<"), EndItem,
          WaveItem(2, "<"), EndItem, OtherItem(2, 3, 3), OtherItem(12, 2, 2) >>,
       << WaveItem(1, ">"), FolderItem(G), WaveItem(2, ">"), EndItem >>,
       << DamagedWaveItem(1, "<"), WaveItem(2, "<") >>,
       << ShortWaveItem(1, "<", 10), WaveItem(2, "<") >>,
       << WaveItem(2, "<"), ShortWaveItem(1, "<", 1) >>,
       << OtherItem(1, 0, 0), OtherItem(12, -16, 0), WaveItem(1, "<") >>,
       << OtherItem(2, 3, 3), OtherItem(4, -19, 0), WaveItem(1, "<") >>,
       << OtherItem(12, -9, 0) >>,
       << OtherItem(32768 + 5, 1000, 2), WaveItem(1, "<") >>,
       << OtherItem(2, -1, 0), FolderItem(F), EndItem >>,
       << WaveItem(1, "<"), WaveItem(1, ">") >>,
       << FolderItem(F), WaveItem(1, "<"), EndItem, WaveItem(1, "<"),
          SizedWaveItem(2, "<", 400) >>,
       << WaveItem(1, "<"),
          [FolderItem(G) EXCEPT !.numDataBytes = -1],
          [EndItem EXCEPT !.numDataBytes = 8], WaveItem(2, "<") >>,
       << SizedWaveItem(1, "<", -1), SizedWaveItem(2, "<", 396),
          WaveItem(1, "<") >>,
       << WaveItem(1, "<"), EndItem, WaveItem(2, "<") >>,
       << WaveItem(1, "<"), [EndItem EXCEPT !.recordType = 32768 + 10,
                                            !.numDataBytes = -500] >>,
       << FolderItem(F), WaveItem(1, "<"),
          [EndItem EXCEPT !.numDataBytes = -500], WaveItem(2, "<") >>,
       << FolderItem(F), FolderItem(G), EndItem, EndItem, WaveItem(1, "<") >>,
       << FolderItem(G), WaveItem(2, "<"), FolderItem(F), EndItem, EndItem >> >>

PackSources == DOMAIN PackItems

\* The record of one item.
ItemRecord(it) ==
    IF it.kind = "wave"
    THEN TheOnly({ PackRecord(3, it.numDataBytes,
                     SubSeq(IF it.at = 0 THEN file ELSE SetByte(file, it.at, 255),
                            1, it.cut))
                   : file \in { SampleFile(it.k, it.o) } })
    ELSE PackRecord(it.recordType, it.numDataBytes, it.data)

\* The bytes of an archive: its records one after the other.
PackBytes(items) == Concat([i \in 1..Len(items) |-> ItemRecord(items[i])])

PackFiles == [src \in PackSources |-> PackBytes(PackItems[src])]

ScIdle == [phase |-> "idle"]

\* What one pass of the loop met: the position p of the record header, the
\* header as decoded, the call depth and the activation's tree and folder
\* name before the pass, and the position up to which the stream was read.
ScanObserved(stream, s, so) ==
    LET b == ReadBytes(stream, s.pos, PackedFileRecordHeaderSize)
        rec == UnpackRecordHeader(b, so["PackedFileRecordHeader"])
        top == s.stack[Len(s.stack)]
        p8 == s.pos + PackedFileRecordHeaderSize
    IN  IF Len(b) < PackedFileRecordHeaderSize
        THEN [kind |-> "end of stream", p |-> s.pos, depth |-> Len(s.stack),
              pack_tree |-> top.pack_tree, folder_name |-> top.folder_name,
              read_to |-> s.pos + Len(b)]
        ELSE [kind |-> "record", p |-> s.pos, depth |-> Len(s.stack),
              pack_tree |-> top.pack_tree, folder_name |-> top.folder_name,
              recordType |-> rec.recordType,
              rec_type_id |-> rec.recordType % 32768,
              numDataBytes |-> rec.numDataBytes,
              read_to |->
                 IF rec.recordType % 32768 = 9
                 THEN p8 + Len(ReadBytes(stream, p8, rec.numDataBytes))
                 ELSE IF rec.recordType % 32768 = 3
                 THEN wave_read_header(stream, p8, so).pos
                 ELSE p8]

ScOpen(src) ==
    [phase |-> "scanning", src |-> src, pos |-> 0, stack |-> << ScanFrame(<< >>) >>,
     raised |-> "none", tree |-> EmptyDict, before |-> structOrder,
     last |-> [kind |-> "none"]]

InitPack ==
    /\ structOrder = FreshStructOrder
    /\ sc = ScIdle /\ up = Idle
    /\ ck = Idle /\ hd = Idle /\ rw = RwIdle
    /\ nt = Idle /\ wf = Idle

\* pack_scan_tree(filename) is called: the file is opened.
ScanOpen ==
    /\ sc.phase = "idle"
    /\ \E src \in PackSources : sc' = ScOpen(src)
    /\ UNCHANGED << structOrder, ck, hd, rw, up, nt, wf >>

\* One record is read and handled.
ScanRecord ==
    /\ sc.phase = "scanning"
    /\ \E r \in { pack_scan_step(PackFiles[sc.src], sc, structOrder) } :
          /\ sc' = [r.s EXCEPT !.last = TheOnly({ x : x \in {
                       ScanObserved(PackFiles[sc.src], sc, structOrder) } })]
          /\ structOrder' = r.structs
    /\ UNCHANGED << ck, hd, rw, up, nt, wf >>

\* The caller is done with the tree (or with the exception).
ScanForget ==
    /\ sc.phase = "done" /\ up.phase = "idle" /\ wf.phase = "idle"
    /\ sc' = ScIdle
    /\ UNCHANGED << structOrder, ck, hd, rw, up, nt, wf >>

\* pack_unpack(filename, packtree=tree) with the tree of the scan.
Unpack ==
    /\ sc.phase = "done" /\ sc.raised = "none" /\ up.phase = "idle"
    /\ wf.phase = "idle"
    /\ up' = [phase |-> "done",
              files |-> pack_unpack(PackFiles[sc.src], << >>, sc.tree),
              dirs |-> UnpackDirs(<< >>, sc.tree)]
    /\ UNCHANGED << structOrder, ck, hd, rw, sc, nt, wf >>

UnpackForget ==
    /\ up.phase = "done"
    /\ up' = Idle /\ sc' = ScIdle
    /\ UNCHANGED << structOrder, ck, hd, rw, nt, wf >>

(***************************************************************************)
(* Wave notes: wave_note_generate() and wave_note_parse_simple().  Text is *)
(* a sequence of character codes.  A Python value is a record: an int      *)
(* (field n), a str (field s), a list of ints and strs (field items) or a  *)
(* dict (field m).  A dict that is written out is the sequence of its      *)
(* items in iteration order; a dict that is built is a function on keys.   *)
(***************************************************************************)
NL == 10
CR == 13
SP == 32
QUOTE == 39
COMMA == 44
MINUS == 45
DOT == 46
EQ == 61
LBRACKET == 91
RBRACKET == 93

\* The characters str.strip() and str.split() treat as white space.
WhiteSpace == {9, 10, 11, 12, 13, 32}

Item(t, n, s) == [t |-> t, n |-> n, s |-> s]

IntVal(n) == [t |-> "int", n |-> n, s |-> << >>, items |-> << >>, m |-> << >>]
StrVal(s) == [t |-> "str", n |-> 0, s |-> s, items |-> << >>, m |-> << >>]
ListVal(items) ==
    [t |-> "list", n |-> 0, s |-> << >>, items |-> items, m |-> << >>]
DictVal(m) == [t |-> "dict", n |-> 0, s |-> << >>, items |-> << >>, m |-> m]

ItemVal(it) == IF it.t = "int" THEN IntVal(it.n) ELSE StrVal(it.s)

Entry(k, v) == [k |-> k, v |-> v]

\* str(n) of an int.
RECURSIVE Digits(_)
Digits(n) ==
    IF n < 10 THEN << 48 + n >>
    ELSE Digits(n \div 10) \o << 48 + (n % 10) >>

IntText(n) == IF n < 0 THEN << MINUS >> \o Digits(-n) ELSE Digits(n)

\* repr() of a list item, str() of a list.
ItemRepr(it) ==
    IF it.t = "int" THEN IntText(it.n) ELSE << QUOTE >> \o it.s \o << QUOTE >>

ListText(items) ==
    << LBRACKET >>
    \o Concat([i \in 1..Len(items) |->
                 (IF i > 1 THEN << COMMA, SP >> ELSE << >>) \o ItemRepr(items[i])])
    \o << RBRACKET >>

\* "%s" % v
ValText(v) ==
    CASE v.t = "int" -> IntText(v.n)
      [] v.t = "str" -> v.s
      [] v.t = "list" -> ListText(v.items)
      [] OTHER -> << >>

\* The 1-based index of the n-th occurrence of c in s; 0 for n = 0 and
\* Len(s) + 1 past the last occurrence.
SepPos(s, c, n) ==
    IF n = 0 THEN 0
    ELSE IF n > Cardinality({ i \in 1..Len(s) : s[i] = c }) THEN Len(s) + 1
    ELSE CHOOSE i \in 1..Len(s) :
            s[i] = c /\ Cardinality({ j \in 1..i : s[j] = c }) = n

\* s.split(c)
Split(s, c) ==
    [n \in 1..(Cardinality({ i \in 1..Len(s) : s[i] = c }) + 1) |->
        SubSeq(s, SepPos(s, c, n - 1) + 1, SepPos(s, c, n) - 1)]

\* s.strip()
Strip(s) ==
    LET keep == { i \in 1..Len(s) : s[i] \notin WhiteSpace }
    IN  IF keep = {} THEN << >>
        ELSE SubSeq(s, CHOOSE i \in keep : \A j \in keep : i <= j,
                       CHOOSE i \in keep : \A j \in keep : j <= i)

\* s.split(): the words of s.
Words(s) ==
    LET starts == { i \in 1..Len(s) :
                      s[i] \notin WhiteSpace /\ (i = 1 \/ s[i - 1] \in WhiteSpace) }
        start(n) == CHOOSE i \in starts :
                       Cardinality({ j \in starts : j <= i }) = n
        stop(i) == CHOOSE e \in i..Len(s) :
                       /\ \A j \in i..e : s[j] \notin WhiteSpace
                       /\ e = Len(s) \/ s[e + 1] \in WhiteSpace
    IN  [n \in 1..Cardinality(starts) |-> SubSeq(s, start(n), stop(start(n)))]

ReservedRoot == { << 100, 101, 98, 117, 103 >>,            \* debug
                  << 115, 116, 114, 97, 121, 115 >>,       \* strays
                  << 97, 120, 101, 115 >>,                 \* axes
                  << 110, 97, 109, 101 >>,                 \* name
                  << 116, 109, 112 >> }                    \* tmp

ReservedBlock == { << 100, 101, 98, 117, 103 >>,
                   << 115, 116, 114, 97, 121, 115 >>,
                   << 97, 120, 101, 115 >>,
                   << 110, 97, 109, 101 >> }

StraysKey == << 115, 116, 114, 97, 121, 115 >>

\* One emitted piece of the note text: the section that wrote it and the
\* keys of the entries it comes from, outermost first.
Piece(text, section, path) == [text |-> text, section |-> section, path |-> path]

NoteOutput(raised, pieces) == [raised |-> raised, pieces |-> pieces]

\* The lines of the stray-lines section for infomap["strays"] = v.
StrayLines(v) ==
    CASE v.t = "list" -> [i \in 1..Len(v.items) |-> ValText(ItemVal(v.items[i]))]
      [] v.t = "str" -> [i \in 1..Len(v.s) |-> << v.s[i] >>]
      [] v.t = "dict" -> [i \in 1..Len(v.m) |-> v.m[i].k]
      [] OTHER -> << >>

\* wave_note_generate: [raised, pieces]; the text is NoteText of the pieces.
RECURSIVE wave_note_generate(_, _, _)
wave_note_generate(infomap, block_prefix, path) ==
    LET root == [i \in 1..Len(infomap) |->
                   IF infomap[i].k \in ReservedRoot \/ infomap[i].v.t = "dict"
                   THEN << >>
                   ELSE << Piece(infomap[i].k \o << SP, EQ, SP >>
                                 \o ValText(infomap[i].v) \o << NL >>,
                                 "root", Append(path, infomap[i].k)) >>]
        subs == [i \in 1..Len(infomap) |->
                   IF infomap[i].k \in ReservedBlock \/ infomap[i].v.t # "dict"
                   THEN NoteOutput("none", << >>)
                   ELSE TheOnly({
                          NoteOutput(g.raised,
                             << Piece(<< LBRACKET >> \o block_prefix
                                      \o infomap[i].k \o << RBRACKET, NL >>,
                                      "block", Append(path, infomap[i].k)) >>
                             \o g.pieces)
                          : g \in { wave_note_generate(infomap[i].v.m, << >>,
                                       Append(path, infomap[i].k)) } })]
        stray == { i \in 1..Len(infomap) : infomap[i].k = StraysKey }
        lines == IF stray = {} THEN << >>
                 ELSE StrayLines(infomap[CHOOSE i \in stray : TRUE].v)
    IN  IF \E i \in 1..Len(infomap) : subs[i].raised # "none"
        THEN NoteOutput("TypeError", << >>)
        ELSE IF \E i \in stray : infomap[i].v.t = "int"
        THEN NoteOutput("TypeError", << >>)
        ELSE NoteOutput("none",
               Concat(root) \o << Piece(<< NL >>, "separator", path) >>
               \o Concat([i \in 1..Len(infomap) |-> subs[i].pieces])
               \o << Piece(<< NL >>, "separator", path) >>
               \o [i \in 1..Len(lines) |->
                     Piece(lines[i] \o << NL >>, "strays",
                           Append(path, StraysKey))])

NoteText(pieces) == Concat([i \in 1..Len(pieces) |-> pieces[i].text])

\* eval() of the text of a value, for the texts the notes here hold: a
\* decimal or octal integer literal with an optional minus sign, a quoted
\* string without quotes inside, and a bracketed list of those.  Any other
\* text (a bare word that names nothing, several words, the empty text)
\* makes eval() raise.
IsDigits(s, base) == Len(s) > 0 /\ \A i \in 1..Len(s) : s[i] \in 48..(47 + base)

RECURSIVE DigitsValue(_, _, _)
DigitsValue(s, n, base) ==
    IF n = 0 THEN 0 ELSE DigitsValue(s, n - 1, base) * base + (s[n] - 48)

IsIntLiteral(s) ==
    \/ IsDigits(s, 10) /\ (s[1] # 48 \/ Len(s) = 1)
    \/ IsDigits(s, 8) /\ s[1] = 48

IntLiteralValue(s) ==
    IF s[1] = 48 THEN DigitsValue(s, Len(s), 8) ELSE DigitsValue(s, Len(s), 10)

IsSignedLiteral(s) ==
    \/ IsIntLiteral(s)
    \/ Len(s) > 1 /\ s[1] = MINUS /\ IsIntLiteral(Strip(Tail(s)))

SignedLiteralValue(s) ==
    IF s[1] = MINUS THEN 0 - IntLiteralValue(Strip(Tail(s)))
    ELSE IntLiteralValue(s)

IsQuoted(s) ==
    /\ Len(s) >= 2 /\ s[1] = QUOTE /\ s[Len(s)] = QUOTE
    /\ \A i \in 2..(Len(s) - 1) : s[i] # QUOTE

\* eval() of one word or list element: [ok, it]
EvalItem(s) ==
    IF IsSignedLiteral(s) THEN [ok |-> TRUE, it |-> Item("int", SignedLiteralValue(s), << >>)]
    ELSE IF IsQuoted(s)
    THEN [ok |-> TRUE, it |-> Item("str", 0, SubSeq(s, 2, Len(s) - 1))]
    ELSE [ok |-> FALSE, it |-> Item("str", 0, s)]

\* eval(val_str): [ok, v]
Eval(s) ==
    IF EvalItem(s).ok THEN [ok |-> TRUE, v |-> ItemVal(EvalItem(s).it)]
    ELSE IF Len(s) >= 2 /\ s[1] = LBRACKET /\ s[Len(s)] = RBRACKET
    THEN LET inner == Strip(SubSeq(s, 2, Len(s) - 1))
             parts == Split(inner, COMMA)
             elems == [i \in 1..Len(parts) |-> EvalItem(Strip(parts[i]))]
         IN  IF inner = << >> THEN [ok |-> TRUE, v |-> ListVal(<< >>)]
             ELSE IF \A i \in 1..Len(parts) : elems[i].ok
             THEN [ok |-> TRUE,
                   v |-> ListVal([i \in 1..Len(parts) |-> elems[i].it])]
             ELSE [ok |-> FALSE, v |-> StrVal(s)]
    ELSE [ok |-> FALSE, v |-> StrVal(s)]

\* The value stored for val_str: eval() of it, or else the list of its
\* words, each evaluated or else kept as a str.
NoteValue(val_str) ==
    IF Eval(val_str).ok THEN Eval(val_str).v
    ELSE ListVal([i \in 1..Len(Words(val_str)) |-> EvalItem(Words(val_str)[i]).it])

\* The parser between two lines: nmap, and the block being filled if any.
ParseState(nmap, in_block, cur_map, cur_map_name, raised) ==
    [nmap |-> nmap, in_block |-> in_block, cur_map |-> cur_map,
     cur_map_name |-> cur_map_name, raised |-> raised]

\* nmap[cur_map_name] = cur_map; cur_map = nmap
EndBlock(st) ==
    IF st.in_block
    THEN ParseState(DictSet(st.nmap, st.cur_map_name, DictVal(st.cur_map)),
                    FALSE, EmptyDict, st.cur_map_name, st.raised)
    ELSE st

\* One pass of the loop body of wave_note_parse_simple, strict_blocks False.
ParseLine(st, n) ==
    LET line == Strip(n)
        nv == Split(line, EQ)
    IN  IF st.raised # "none" THEN st
        ELSE IF Len(line) = 0 THEN st
        ELSE IF st.in_block /\ line = << DOT >> THEN EndBlock(st)
        ELSE IF line[1] = LBRACKET /\ line[Len(line)] = RBRACKET
        THEN ParseState(EndBlock(st).nmap, TRUE, EmptyDict,
                        SubSeq(line, 2, Len(line) - 1), "none")
        ELSE IF Len(nv) < 2
        THEN IF st.nmap[StraysKey].t # "list"
             THEN [st EXCEPT !.raised = "AttributeError"]
             ELSE EndBlock([st EXCEPT !.nmap =
                     DictSet(st.nmap, StraysKey,
                        ListVal(Append(st.nmap[StraysKey].items,
                                       Item("str", 0, line))))])
        ELSE IF st.in_block
        THEN [st EXCEPT !.cur_map =
                DictSet(st.cur_map, Strip(nv[1]), NoteValue(Strip(nv[2])))]
        ELSE [st EXCEPT !.nmap =
                DictSet(st.nmap, Strip(nv[1]), NoteValue(Strip(nv[2])))]

RECURSIVE ParseLines(_, _, _)
ParseLines(lines, i, st) ==
    IF i > Len(lines) THEN EndBlock(st)
    ELSE TheOnly({ ParseLines(lines, i + 1, st1) :
                     st1 \in { ParseLine(st, lines[i]) } })

\* wave_note_parse_simple(notestr): [raised, nmap]
wave_note_parse_simple(notestr) ==
    LET new_note == [i \in 1..Len(notestr) |->
                       IF notestr[i] = CR THEN NL ELSE notestr[i]]
        st == TheOnly({ ParseLines(lines, 1,
                           ParseState(DictSet(EmptyDict, StraysKey, ListVal(<< >>)),
                                      FALSE, EmptyDict, << >>, "none"))
                        : lines \in { Split(new_note, NL) } })
    IN  [raised |-> st.raised, nmap |-> st.nmap]

(***************************************************************************)
(* Harness for the wave notes: an info map is written out as a note and    *)
(* the note is parsed back.                                                *)
(***************************************************************************)
MaxEntries == 2      \* wave_note_generate(): most entries of the info map

KeyK == << 107 >>
KeyT == << 84 >>
KeyB == << 98 >>
KeyTmp == << 116, 109, 112 >>
KeyName == << 110, 97, 109, 101 >>
KeyDebug == << 100, 101, 98, 117, 103 >>

\* The entries an info map is made of; "ab" is << 97, 98 >>.
NotePool ==
    { Entry(KeyK, IntVal(12)),
      Entry(KeyK, StrVal(<< 97, 98 >>)),
      Entry(KeyT, IntVal(-3)),
      Entry(KeyT, ListVal(<< Item("int", 1, << >>), Item("int", 20, << >>) >>)),
      Entry(KeyB, DictVal(<< Entry(KeyK, IntVal(7)) >>)),
      Entry(KeyB, DictVal(<< Entry(KeyT, IntVal(0)),
                             Entry(KeyName, IntVal(1)) >>)),
      Entry(KeyTmp, DictVal(<< Entry(KeyK, IntVal(7)) >>)),
      Entry(KeyTmp, IntVal(5)),
      Entry(KeyName, StrVal(<< 97, 98 >>)),
      Entry(KeyDebug, DictVal(<< Entry(KeyK, IntVal(7)) >>)),
      Entry(StraysKey, ListVal(<< Item("str", 0, << 120, 121 >>) >>)) }

NoteMaps ==
    { m \in UNION { [1..n -> NotePool] : n \in 1..MaxEntries } :
        \A i, j \in 1..Len(m) : m[i].k = m[j].k => i = j }

\* The notes that are parsed line by line, as lists of lines; the lines of
\* a note are joined by "\n", and the line "k = 1\rt=2" holds a "\r".
NoteSamples ==
    << << << 107, 61, 49 >>, << 91, 98, 93 >>, << 116, 61, 50 >>,
          << 46 >>, << 107, 61, 51 >> >>,                 \* k=1 [b] t=2 . k=3
       << << 91, 98, 93 >>, << 107, 61, 49 >>, << >>,
          << 116, 61, 50 >> >>,                            \* [b] k=1 "" t=2
       << << 120, 121 >>, << 91, 98, 93 >>, << 107, 61, 49 >>,
          << 122, 122 >>, << 116, 61, 50 >> >>,            \* xy [b] k=1 zz t=2
       << << 91, 98, 93 >>, << 107, 61, 49 >>, << 91, 99, 93 >>,
          << 116, 61, 50 >> >>,                            \* [b] k=1 [c] t=2
       << << 91, 98, 93 >>, << 107, 61, 49 >>, << 46 >>,
          << 98, 61, 50 >> >>,                             \* [b] k=1 . b=2
       << << 91, 98, 93 >>, << 107, 61, 49 >>, << 91, 98, 93 >>,
          << 116, 61, 50 >> >>,                            \* [b] k=1 [b] t=2
       << StraysKey \o << 61, 53 >>, << 120, 121 >> >>,    \* strays=5 xy
       << << 91 >> \o StraysKey \o << 93 >>, << 107, 61, 49 >>,
          << 120, 121 >>, << 122, 122 >> >>,               \* [strays] k=1 xy zz
       << << 107, 61, 49, 61, 50 >> >>,                    \* k=1=2
       << << 32, 107, 32, 61, 32, 49, 32, 13, 116, 61, 49, 50, 32, 75 >>,
          << 46 >> >>,                                     \* " k = 1 \rt=12 K" .
       << StraysKey \o << 61, 91, 49, 93 >>, << 120, 121 >> >> >>  \* strays=[1] xy

NoteTexts ==
    { Concat([i \in 1..Len(NoteSamples[n]) |->
                (IF i > 1 THEN << NL >> ELSE << >>) \o NoteSamples[n][i]])
      : n \in DOMAIN NoteSamples }

\* The loop body of wave_note_parse_simple with strict_blocks given.
ParseLineStrict(st, n, strict_blocks) ==
    IF st.raised = "none" /\ Len(Strip(n)) = 0 /\ strict_blocks
    THEN EndBlock(st)
    ELSE ParseLine(st, n)

\* nmap = { "strays": [] }; cur_map = nmap
ParseStart ==
    ParseState(DictSet(EmptyDict, StraysKey, ListVal(<< >>)),
               FALSE, EmptyDict, << >>, "none")

\* lines, i, st: the parser run line by line; log: for each line read, the
\* line stripped and the block that was open when it was read.
NtIdle ==
    [phase |-> "idle", infomap |-> << >>, out |-> NoteOutput("none", << >>),
     text |-> << >>, parsed |-> [raised |-> "none", nmap |-> EmptyDict],
     lines |-> << >>, i |-> 0, st |-> ParseStart, strict_blocks |-> FALSE,
     log |-> << >>]

InitNote ==
    /\ structOrder = FreshStructOrder
    /\ nt = NtIdle
    /\ ck = Idle /\ hd = Idle /\ rw = RwIdle /\ sc = ScIdle /\ up = Idle
    /\ wf = Idle

NoteGenerate ==
    /\ nt.phase = "idle"
    /\ \E infomap \in NoteMaps :
          LET g == TheOnly({ x : x \in { wave_note_generate(infomap, << >>,
                                                           << >>) } })
          IN  nt' = [nt EXCEPT !.phase = "generated", !.infomap = infomap,
                               !.out = g, !.text = NoteText(g.pieces)]
    /\ UNCHANGED << structOrder, ck, hd, rw, sc, up, wf >>

NoteParse ==
    /\ nt.phase = "generated"
    /\ nt.out.raised = "none"
    /\ nt' = [nt EXCEPT !.phase = "parsed",
                        !.parsed = wave_note_parse_simple(nt.text)]
    /\ UNCHANGED << structOrder, ck, hd, rw, sc, up, wf >>

NoteDone ==
    /\ nt.phase \in {"generated", "parsed"}
    /\ nt' = NtIdle
    /\ UNCHANGED << structOrder, ck, hd, rw, sc, up, wf >>

\* wave_note_parse_simple(notestr, strict_blocks) up to its loop.
NoteParseText ==
    /\ nt.phase = "idle"
    /\ \E text \in NoteTexts, strict_blocks \in BOOLEAN :
          nt' = [NtIdle EXCEPT
                   !.phase = "parsing", !.text = text,
                   !.strict_blocks = strict_blocks, !.i = 1,
                   !.lines = Split([i \in 1..Len(text) |->
                                      IF text[i] = CR THEN NL ELSE text[i]], NL)]
    /\ UNCHANGED << structOrder, ck, hd, rw, sc, up, wf >>

\* One pass of its loop; an exception ends the call.
NoteParseLine ==
    /\ nt.phase = "parsing"
    /\ nt.i <= Len(nt.lines)
    /\ LET st1 == TheOnly({ x : x \in { ParseLineStrict(nt.st, nt.lines[nt.i],
                                                        nt.strict_blocks) } })
       IN  nt' = [nt EXCEPT
                    !.st = st1, !.i = nt.i + 1,
                    !.log = Append(nt.log,
                               [line |-> Strip(nt.lines[nt.i]),
                                in_block |-> nt.st.in_block,
                                cur_map_name |-> nt.st.cur_map_name]),
                    !.phase = IF st1.raised = "none" THEN "parsing" ELSE "parsed",
                    !.parsed = [raised |-> st1.raised, nmap |-> st1.nmap]]
    /\ UNCHANGED << structOrder, ck, hd, rw, sc, up, wf >>

\* After the loop: the last section is saved and nmap returned.
NoteParseEnd ==
    /\ nt.phase = "parsing"
    /\ nt.i > Len(nt.lines)
    /\ nt' = [nt EXCEPT !.st = EndBlock(nt.st), !.phase = "parsed",
                        !.parsed = [raised |-> "none",
                                    nmap |-> EndBlock(nt.st).nmap]]
    /\ UNCHANGED << structOrder, ck, hd, rw, sc, up, wf >>

NextNote ==
    \/ NoteGenerate \/ NoteParse \/ NoteDone
    \/ NoteParseText \/ NoteParseLine \/ NoteParseEnd

SpecNote == InitNote /\ [][NextNote]_vars

(***************************************************************************)
(* wave_find(filename, pack_tree) once the tree is at hand.  A path is a   *)
(* sequence of character codes; the file system enters through the result  *)
(* of os.path.exists(filename) and the content of the file it names.       *)
(***************************************************************************)
COLON == 58
SLASH == 47

KeyType == << 116, 121, 112, 101 >>
KeySub == << 115, 117, 98 >>
KeyOffset == << 111, 102, 102, 115, 101, 116 >>
KeySize == << 115, 105, 122, 101 >>

\* os.path.dirname / os.path.basename / os.path.join
LastSlash(p) ==
    IF \E i \in 1..Len(p) : p[i] = SLASH
    THEN CHOOSE i \in 1..Len(p) :
            p[i] = SLASH /\ \A j \in (i + 1)..Len(p) : p[j] # SLASH
    ELSE 0

PathDirname(p) ==
    IF LastSlash(p) <= 1 THEN SubSeq(p, 1, LastSlash(p))
    ELSE SubSeq(p, 1, LastSlash(p) - 1)

PathBasename(p) == SubSeq(p, LastSlash(p) + 1, Len(p))

PathJoin(a, b) ==
    IF a = << >> THEN b
    ELSE IF a[Len(a)] = SLASH THEN a \o b
    ELSE a \o << SLASH >> \o b

\* A value met while walking the tree: a tree (dict of nodes), a node (the
\* dict of a wave or a folder), a str or an int; or the exception raised.
Found(kind, val) == [kind |-> kind, val |-> val]

\* tree[idir] for the value cur.
WalkStep(cur, idir) ==
    CASE cur.kind = "tree" ->
           LET ks == { k \in DOMAIN cur.val : StripNul(k) = idir }
           IN  IF ks = {} THEN Found("KeyError", idir)
               ELSE Found("node", cur.val[CHOOSE k \in ks : TRUE])
      [] cur.kind = "node" ->
           IF idir = KeyType THEN Found("str", cur.val.type)
           ELSE IF idir = KeyName THEN Found("str", cur.val.name)
           ELSE IF cur.val.type = "folder" /\ idir = KeySub
           THEN Found("tree", cur.val.sub)
           ELSE IF cur.val.type = "wave" /\ idir = KeyOffset
           THEN Found("int", cur.val.offset)
           ELSE IF cur.val.type = "wave" /\ idir = KeySize
           THEN Found("int", cur.val.size)
           ELSE Found("KeyError", idir)
      [] cur.kind \in {"str", "int"} -> Found("TypeError", idir)
      [] OTHER -> cur

\* for idir in igor_path: tree = tree[idir]
RECURSIVE Walk(_, _, _)
Walk(cur, igor_path, i) ==
    IF i > Len(igor_path) THEN cur
    ELSE TheOnly({ Walk(nxt, igor_path, i + 1) :
                     nxt \in { WalkStep(cur, igor_path[i]) } })

\* 'offset' in tree
HasOffset(cur) ==
    CASE cur.kind = "tree" -> \E k \in DOMAIN cur.val : StripNul(k) = KeyOffset
      [] cur.kind = "node" -> cur.val.type = "wave"
      [] OTHER -> FALSE

FindResult(raised, real_filename, igor_path, tree, so) ==
    [raised |-> raised, real_filename |-> real_filename,
     igor_path |-> igor_path, tree |-> tree, structs |-> so]

\* wave_find(filename, pack_tree): exists is os.path.exists(filename) and
\* content the bytes of the file real_filename.
wave_find(filename, exists, pack_tree, content, so) ==
    LET parts == Split(PathBasename(filename), COLON)
        real_filename == IF exists THEN filename
                         ELSE PathJoin(PathDirname(filename), parts[1])
        igor_path == IF exists THEN << >> ELSE Tail(parts)
    IN  IF Len(igor_path) > 0
        THEN TheOnly({
               IF cur.kind \in {"KeyError", "TypeError"}
               THEN FindResult(cur.kind, real_filename, igor_path, << >>, so)
               ELSE IF cur.kind = "int"
               THEN FindResult("TypeError", real_filename, igor_path, << >>, so)
               ELSE IF ~HasOffset(cur)
               THEN FindResult("IOError", real_filename, igor_path, << >>, so)
               ELSE FindResult("none", real_filename, igor_path,
                      [node |-> cur.val,
                       wname |-> igor_path[Len(igor_path)],
                       wpath |-> SubSeq(igor_path, 1, Len(igor_path) - 1),
                       file |-> real_filename], so)
               : cur \in { Walk(Found("tree", pack_tree), igor_path, 1) } })
        ELSE TheOnly({
               IF h.raised # "none"
               THEN FindResult(h.raised, real_filename, igor_path, << >>,
                               h.structs)
               ELSE FindResult("none", real_filename, igor_path,
                      [node |-> pack_tree, wname |-> h.name,
                       wpath |-> real_filename, offset |-> 0], h.structs)
               : h \in { wave_read_header(content, 0, so) } })

KeyWname == << 119, 110, 97, 109, 101 >>
KeyWpath == << 119, 112, 97, 116, 104 >>
KeyFile == << 102, 105, 108, 101 >>

\* d.update(more) for dicts d and more.
DictUpdate(d, more) ==
    [x \in DOMAIN d \cup DOMAIN more |-> IF x \in DOMAIN more THEN more[x] ELSE d[x]]

\* The dict cur after "for idir in igor_path[i:]: tree = tree[idir]" and
\* the assignments tree['wname'], tree['wpath'], tree['file'] that follow:
\* tree is the dict reached itself, no copy, so the dict the walk started
\* from holds the entries afterwards.  more has them keyed by field name
\* for a node and by key for a tree.
RECURSIVE WalkSet(_, _, _, _)
WalkSet(cur, igor_path, i, more) ==
    IF i > Len(igor_path)
    THEN IF cur.kind = "node" THEN DictUpdate(cur.val, more.node)
         ELSE DictUpdate(cur.val, more.tree)
    ELSE IF cur.kind = "tree"
    THEN LET k == CHOOSE k \in DOMAIN cur.val : StripNul(k) = igor_path[i]
         IN  TheOnly({ [cur.val EXCEPT ![k] = sub] :
                sub \in { WalkSet(Found("node", cur.val[k]), igor_path,
                                  i + 1, more) } })
    ELSE TheOnly({ [cur.val EXCEPT !.sub = sub] :
                sub \in { WalkSet(Found("tree", cur.val.sub), igor_path,
                                  i + 1, more) } })

\* The dict pack_tree of the caller after wave_find(filename, pack_tree)
\* gave the result r: "tree = pack_tree" binds the same dict, and the
\* assignments to tree[...] at the end of either branch are made in it.
PackTreeAfterFind(pack_tree, r) ==
    IF r.raised # "none" THEN pack_tree
    ELSE IF Len(r.igor_path) > 0
    THEN WalkSet(Found("tree", pack_tree), r.igor_path, 1,
            [node |-> [wname |-> r.tree.wname, wpath |-> r.tree.wpath,
                       file |-> r.tree.file],
             tree |-> (KeyWname :> Found("str", r.tree.wname))
                      @@ (KeyWpath :> Found("list", r.tree.wpath))
                      @@ (KeyFile :> Found("str", r.tree.file))])
    ELSE DictUpdate(pack_tree,
            (KeyWname :> Found("str", r.tree.wname))
            @@ (KeyWpath :> Found("str", r.tree.wpath))
            @@ (KeyOffset :> Found("int", 0)))

PxpPath == << 100, 47, 112, 46, 112, 120, 112 >>       \* "d/p.pxp"

\* What the file named is when it exists: the archive that was scanned, or
\* a wave file.
FindFiles == {"archive", "wave"}

FindContent(kind, src) ==
    IF kind = "archive" THEN PackFiles[src] ELSE SampleFile(1, NativeOrder)

\* The Igor paths asked for: waves "a" and "bc", folders "f" and "g".
FindPaths ==
    { << >>, << WaveName(1) >>, << WaveName(2) >>, << F >>, << G >>,
      << F, WaveName(1) >>, << G, WaveName(2) >>, << F, KeySub, WaveName(1) >>,
      << F, G, WaveName(1) >>, << F, KeySub, G, KeySub, WaveName(1) >>,
      << F, KeySub >>, << WaveName(1), KeyOffset >>, << F, KeyType >>,
      << WaveName(1), KeySize, F >> }

FindName(path) ==
    PxpPath \o Concat([i \in 1..Len(path) |-> << COLON >> \o path[i]])

WfIdle == [phase |-> "idle"]

\* wave_find(filename) after its pack_scan_tree(), or wave_find(filename,
\* pack_tree) with the tree of the scan.  A name without ':' is a file that
\* exists.  sc.tree stays the tree as the scan returned it; wf.pack_tree is
\* that dict after the call.
WaveFind ==
    /\ sc.phase = "done" /\ sc.raised = "none"
    /\ up.phase = "idle" /\ wf.phase = "idle"
    /\ \E path \in FindPaths, exists \in BOOLEAN, kind \in FindFiles :
          /\ path = << >> => exists
          /\ ~exists => kind = "archive"
          /\ LET r == TheOnly({ x : x \in { wave_find(FindName(path), exists,
                                      sc.tree, FindContent(kind, sc.src),
                                      structOrder) } })
             IN  /\ wf' = [phase |-> "done", filename |-> FindName(path),
                           path |-> path, exists |-> exists, kind |-> kind,
                           out |-> r,
                           pack_tree |-> PackTreeAfterFind(sc.tree, r)]
                 /\ structOrder' = r.structs
    /\ UNCHANGED << ck, hd, rw, sc, up, nt >>

\* The caller is done with the wave found and with the tree.
WaveFindForget ==
    /\ wf.phase = "done"
    /\ wf' = WfIdle /\ sc' = ScIdle
    /\ UNCHANGED << structOrder, ck, hd, rw, up, nt >>

NextPack ==
    \/ ScanOpen \/ ScanRecord \/ ScanForget \/ Unpack \/ UnpackForget
    \/ WaveFind \/ WaveFindForget

SpecPack == InitPack /\ [][NextPack]_vars

\* The scan is a running program: it keeps taking its next step.
SpecPackFair == SpecPack /\ WF_vars(ScanRecord)


(***************************************************************************)
(* C1.  For every buffer, byte order, seed and even byte count, checksum() *)
(* returns (it does not raise: its range assertion holds) the low 16 bits, *)
(* read as a signed value, of seed + sum of the buffer's signed 16-bit     *)
(* words wrapped into the signed 32-bit range modulo 2^32.                 *)
(***************************************************************************)
\* seed + sum, wrapped into [-2^31, 2^31) by two's-complement wraparound.
C1_Wrapped32 ==
    LET t == LimbAdd(ck.oldcksum,
                     SumSeq(ChecksumWords(ck.buffer, ck.byte_order, ck.numbytes)))
    IN  Limb(((t.hi + 32768) % 65536) - 32768, t.lo)

C1_ChecksumFoldsEveryInput ==
    ck.phase = "done" => ck.result = Returned(Signed16(C1_Wrapped32.lo))

(***************************************************************************)
(* C2.  The version, byte order and success or failure that a header read  *)
(* yields depend only on the stream's bytes: they are what the same stream *)
(* yields as the first file read by the process.                           *)
(***************************************************************************)
C2_HeaderReadDependsOnlyOnBytes ==
    hd.phase = "done" =>
        HeaderOutcome(hd.result)
            = HeaderOutcome(wave_read_header(hd.stream, 0, FreshStructOrder))

(***************************************************************************)
(* C5.  Changing the value of a single byte of the container header or of  *)
(* the wave header of a valid version-5 file makes wave_read_header fail   *)
(* with VersionError.                                                      *)
(***************************************************************************)
C5_AnyHeaderByteChangeIsVersionError ==
    (hd.phase = "done" /\ hd.src.at # 0) => hd.result.raised = "VersionError"

\* The file read is a file that differs in one byte, inside the checksum span
\* and outside the version field, from a version-5 file that wave_read_header
\* accepts with the Structure objects as they were before the read.
C5_ChangedInsideSpan ==
    /\ hd.phase = "done"
    /\ hd.src.at > BinHeaderCommonSize
    /\ hd.src.at <= CheckSumSize5
    /\ wave_read_header(HdrFiles[[hd.src EXCEPT !.at = 0, !.to = 0]], 0,
                        hd.before).raised = "none"

\* C5 as amended: a single byte changed inside the checksum span, outside the
\* version field, of a file the reader accepts makes the read fail with
\* VersionError.
C5_SpanByteChangeIsVersionError ==
    C5_ChangedInsideSpan => hd.result.raised = "VersionError"

C5_Witness ==
    C5_ChangedInsideSpan /\ hd.result.raised = "VersionError"
        /\ hd.src.at = CheckSumSize5

(***************************************************************************)
(* C6.  The little-endian and the big-endian encoding of a wave decode to  *)
(* the same logical values: the version, and every header field decoded    *)
(* after it, are those of the wave that was encoded.                       *)
(***************************************************************************)
C6_BothByteOrdersDecodeAlike ==
    (hd.phase = "done" /\ hd.src.at = 0) =>
        /\ hd.result.raised = "none"
        /\ hd.result.version = 5
        /\ hd.result.byte_order = hd.src.order
        /\ hd.result.wave_info = SampleWave(hd.src.wave).whead
        /\ hd.result.bin_info.wfmSize = SampleWave(hd.src.wave).bhead.wfmSize

(***************************************************************************)
(* C3.  For every array with at most 4 dimensions whose element type is in *)
(* TYPE_TABLE, wave_write succeeds and wave_read of its output returns an  *)
(* array with the same shape, element values, per-dimension scale and name.*)
(***************************************************************************)
C3_InTypeTable(dtype) == \E k \in DOMAIN TYPE_TABLE : TYPE_TABLE[k] = dtype

C3_RoundTrip ==
    (/\ rw.phase \in {"written", "read"}
     /\ Len(rw.wav.shape) <= MAXDIMS
     /\ C3_InTypeTable(rw.wav.dtype)
     /\ rw.fpath = << >>) =>
        /\ rw.out.raised = "none"
        /\ rw.phase = "read" =>
              /\ rw.result.raised = "none"
              /\ rw.result.shape = rw.wav.shape
              /\ rw.result.data = rw.wav.data
              /\ rw.result.dim = rw.wav.dim
              /\ StripNul(rw.result.name) = rw.wav.name

(***************************************************************************)
(* C4.  For every array and note wave_write accepts (at most 4 dimensions),*)
(* wave_write completes and the checksum over the first BinHeader5.size +  *)
(* WaveHeader5.size - 4 bytes of its output is 0, whatever value in        *)
(* [-2^15, 2^15) the checksum computed with a zero checksum field takes.   *)
(***************************************************************************)
C4_ReaderOrder(bytes) ==
    byte_order(need_to_reorder_bytes(U16At(bytes, 1, NativeOrder)))

C4_WrittenChecksumIsZero ==
    (rw.phase = "written" /\ Len(rw.wav.shape) <= MAXDIMS) =>
        /\ rw.out.raised = "none"
        /\ checksum(rw.out.bytes, C4_ReaderOrder(rw.out.bytes), Limb(0, 0),
                    CheckSumSize5) = Returned(0)

(***************************************************************************)
(* C7.  While pack_scan_tree scans an archive, a Wave record whose header  *)
(* fails to decode does not abort the scan: the scan returns a tree, and   *)
(* the intact wave records after the failing one appear in it.             *)
(***************************************************************************)
C7_Failing(it) ==
    it.kind = "wave" /\ (it.at # 0 \/ it.cut < CheckSumSize5 + 4)

C7_Intact(it) ==
    /\ it.kind = "wave" /\ it.at = 0
    /\ it.cut = CheckSumSize5 + 4 /\ it.numDataBytes = it.cut

\* Archives of top-level wave records that start with a failing one.
C7_Sources ==
    { src \in PackSources :
        /\ \A i \in 1..Len(PackItems[src]) : PackItems[src][i].kind = "wave"
        /\ C7_Failing(PackItems[src][1])
        /\ \E i \in 2..Len(PackItems[src]) : C7_Intact(PackItems[src][i]) }

C7_FailingWaveDoesNotAbortScan ==
    (sc.phase = "done" /\ sc.src \in C7_Sources) =>
        /\ sc.raised = "none"
        /\ \A i \in 2..Len(PackItems[sc.src]) :
              C7_Intact(PackItems[sc.src][i]) =>
                 \E key \in DOMAIN sc.tree :
                    StripNul(key) = WaveName(PackItems[sc.src][i].k)

(***************************************************************************)
(* C8.  For every finite byte stream, whatever record types and dataSize   *)
(* values its record headers carry, a scan that has started ends: it       *)
(* returns or raises after finitely many record reads.                     *)
(***************************************************************************)
C8_ScanTerminates == (sc.phase = "scanning") ~> (sc.phase = "done")

(***************************************************************************)
(* C9.  For every archive built from N waves with pairwise distinct names  *)
(* placed in M nested folders, pack_scan_tree returns a tree with exactly  *)
(* N wave leaves, each in the folder whose DataFolderStart is the innermost*)
(* one not yet matched by a DataFolderEnd at the wave's record.            *)
(***************************************************************************)
\* The << folder path, wave name >> pairs of the waves among items[i..],
\* path being the folders open at items[i].
RECURSIVE C9_Placed(_, _, _)
C9_Placed(items, i, path) ==
    IF i > Len(items) THEN {}
    ELSE IF items[i].kind = "folder"
    THEN C9_Placed(items, i + 1, Append(path, BeforeNul(items[i].data)))
    ELSE IF items[i].kind = "end"
    THEN C9_Placed(items, i + 1, SubSeq(path, 1, Len(path) - 1))
    ELSE IF items[i].kind = "wave"
    THEN { << path, WaveName(items[i].k) >> } \cup C9_Placed(items, i + 1, path)
    ELSE C9_Placed(items, i + 1, path)

\* The folder depth after items[1..i].
RECURSIVE C9_Depth(_, _)
C9_Depth(items, i) ==
    IF i = 0 THEN 0
    ELSE C9_Depth(items, i - 1)
         + (IF items[i].kind = "folder" THEN 1
            ELSE IF items[i].kind = "end" THEN -1 ELSE 0)

C9_WaveCount(items) ==
    Cardinality({ i \in 1..Len(items) : items[i].kind = "wave" })

\* Every record is as Igor writes it, the folders are matched, and the
\* waves' names are pairwise distinct.
C9_Constructed(items) ==
    /\ \A i \in 1..Len(items) :
          /\ items[i].kind = "wave" => C7_Intact(items[i])
          /\ items[i].kind # "wave" => items[i].numDataBytes = Len(items[i].data)
          /\ C9_Depth(items, i) >= 0
    /\ C9_Depth(items, Len(items)) = 0
    /\ \A i, j \in 1..Len(items) :
          (items[i].kind = "wave" /\ items[j].kind = "wave" /\ i # j)
             => items[i].k # items[j].k

\* The << folder path, wave name >> pairs of the wave leaves of a tree.
RECURSIVE C9_Leaves(_, _)
C9_Leaves(tree, path) ==
    UNION { IF tree[key].type = "folder"
            THEN C9_Leaves(tree[key].sub, Append(path, tree[key].name))
            ELSE { << path, StripNul(tree[key].name) >> }
            : key \in DOMAIN tree }

C9_EveryWaveIsALeafInItsFolder ==
    (sc.phase = "done" /\ C9_Constructed(PackItems[sc.src])) =>
        /\ sc.raised = "none"
        /\ Cardinality(C9_Leaves(sc.tree, << >>)) = C9_WaveCount(PackItems[sc.src])
        /\ C9_Leaves(sc.tree, << >>) = C9_Placed(PackItems[sc.src], 1, << >>)

(***************************************************************************)
(* C10.  For every tree returned by pack_scan_tree over an archive with N  *)
(* waves, pack_unpack writes exactly N files, one '<wave name>.ibw' per    *)
(* wave leaf, each holding exactly the 'size' bytes of the source that     *)
(* start at the leaf's 'offset'.                                           *)
(***************************************************************************)
\* The << folder path, leaf >> pairs of the wave leaves of a tree.
RECURSIVE C10_Leaves(_, _)
C10_Leaves(tree, path) ==
    UNION { IF tree[key].type = "folder"
            THEN C10_Leaves(tree[key].sub, Append(path, tree[key].name))
            ELSE { << path, tree[key] >> }
            : key \in DOMAIN tree }

C10_Path(l) == Append(l[1], l[2].name \o IbwSuffix)

C10_ExactlyNFilesOfSizeBytes ==
    up.phase = "done" =>
        /\ Cardinality(DOMAIN up.files) = C9_WaveCount(PackItems[sc.src])
        /\ \A l \in C10_Leaves(sc.tree, << >>) :
              /\ C10_Path(l) \in DOMAIN up.files
              /\ Len(up.files[C10_Path(l)]) = l[2].size
              /\ up.files[C10_Path(l)]
                   = SubSeq(PackFiles[sc.src], l[2].offset + 1,
                            l[2].offset + l[2].size)

(***************************************************************************)
(* C10, amended.  pack_unpack writes exactly one file per wave leaf of the *)
(* tree (an archive in which two waves of one folder share a name has      *)
(* fewer leaves than waves), named '<wave name>.ibw' under the leaf's      *)
(* folder path, and the file holds the bytes of the source from the leaf's *)
(* 'offset' up to 'offset' + 'size' or up to the end of the source,        *)
(* whichever comes first (up to the end when 'size' is negative).          *)
(***************************************************************************)
C10_Carved(stream, offset, size) ==
    SubSeq(stream, offset + 1,
           IF size < 0 \/ offset + size > Len(stream) THEN Len(stream)
           ELSE offset + size)

C10_OneFilePerLeafCarvedToEnd ==
    up.phase = "done" =>
        /\ Cardinality(DOMAIN up.files)
             = Cardinality(C10_Leaves(sc.tree, << >>))
        /\ \A l \in C10_Leaves(sc.tree, << >>) :
              /\ C10_Path(l) \in DOMAIN up.files
              /\ up.files[C10_Path(l)]
                   = C10_Carved(PackFiles[sc.src], l[2].offset, l[2].size)

\* An extraction with a file inside a folder and a leaf whose 'size' runs
\* past the end of the source.
C10_Witness ==
    /\ up.phase = "done"
    /\ \E l \in C10_Leaves(sc.tree, << >>) :
          /\ Len(l[1]) = 1
          /\ C10_Path(l) \in DOMAIN up.files
    /\ \E l \in C10_Leaves(sc.tree, << >>) :
          /\ l[2].offset + l[2].size > Len(PackFiles[sc.src])
          /\ Len(up.files[C10_Path(l)]) = Len(PackFiles[sc.src]) - l[2].offset


(***************************************************************************)
(* C11.  When a header's type code is not in the element-type table, or    *)
(* when wave_data_size differs from pointCount x elementSize, decoding     *)
(* that wave fails with FormatError.                                       *)
(***************************************************************************)
\* The header of the file at hand as a process that has read nothing yet
\* decodes it.
C11_Header == wave_read_header(rw.out.bytes, 0, FreshStructOrder)

C11_BadTypeOrSize(h) ==
    /\ h.raised = "none"
    /\ \/ h.wave_info.type \notin DOMAIN TYPE_TABLE
       \/ h.bin_info.wave_data_size #
             h.wave_info.npnts * ItemSize(TYPE_TABLE[h.wave_info.type])

C11_BadTypeOrSizeIsFormatError ==
    (rw.phase = "decoded" /\ C11_BadTypeOrSize(C11_Header)) =>
        rw.result.raised = "FormatError"

(***************************************************************************)
(* C12.  For every version-5 header, each dimension of the array returned  *)
(* by wave_read carries the affine scale (sfA[j], sfB[j]) of the header    *)
(* dimension j from which that array dimension's extent was taken, the     *)
(* array's dimensions being the positive entries of nDim in order.         *)
(***************************************************************************)
\* The header dimension that holds the k-th positive entry of nDim.
C12_HeaderDim(nDim, k) ==
    CHOOSE j \in 1..Len(nDim) :
        nDim[j] > 0 /\ Cardinality({ i \in 1..j : nDim[i] > 0 }) = k

C12_Header == wave_read_header(rw.out.bytes, 0, FreshStructOrder)

C12_ScaleFollowsHeaderDim(h, r) ==
    /\ r.shape = SelectPositive(h.wave_info.nDim)
    /\ \A k \in 1..Len(r.shape) :
          r.dim[k] = Scale(h.wave_info.sfA[C12_HeaderDim(h.wave_info.nDim, k)],
                           h.wave_info.sfB[C12_HeaderDim(h.wave_info.nDim, k)])

C12_ScaleOfExtentDimension ==
    (rw.phase \in {"read", "decoded"} /\ rw.result.raised = "none"
     /\ C12_Header.raised = "none" /\ C12_Header.version = 5) =>
        C12_ScaleFollowsHeaderDim(C12_Header, rw.result)

(***************************************************************************)
(* C13.  wave_write of an array whose element type matches no entry of     *)
(* TYPE_TABLE completes without raising and writes a header whose type     *)
(* field is left unset (type code 0), so that a later wave_read of that    *)
(* output fails as a text wave instead of returning an array.              *)
(***************************************************************************)
C13_Unmatched(wav) ==
    /\ \A k \in DOMAIN TYPE_TABLE : TYPE_TABLE[k] # wav.dtype
    /\ Len(wav.shape) <= MAXDIMS

C13_WrittenType ==
    UnpackWaveHeader5(rw.out.bytes, BinHeader5Size, NativeOrder).type

C13_UnmatchedTypeWritesTextWave ==
    /\ (rw.phase \in {"written", "read"} /\ C13_Unmatched(rw.wav)) =>
          rw.out.raised = "none" /\ C13_WrittenType = 0
    /\ (rw.phase = "read" /\ C13_Unmatched(rw.wav)) =>
          rw.result.raised = "NotImplementedError"

(***************************************************************************)
(* C14.  For every map with scalar root entries and at most one level of   *)
(* sub-maps, wave_note_parse_simple(wave_note_generate(map)) contains      *)
(* every root scalar entry of map with its value, and every sub-map of map *)
(* whose name is not reserved with all of that sub-map's entries.          *)
(***************************************************************************)
C14_SameValue(v, w) ==
    v.t = w.t /\ v.n = w.n /\ v.s = w.s /\ v.items = w.items

\* The dict d holds every entry of the item sequence items that is no sub-map.
C14_Holds(d, items) ==
    \A i \in 1..Len(items) :
        items[i].v.t \in {"int", "str"} =>
            /\ items[i].k \in DOMAIN d
            /\ C14_SameValue(d[items[i].k], items[i].v)

C14_OneLevel(infomap) ==
    \A i \in 1..Len(infomap) :
        infomap[i].v.t = "dict" =>
            \A j \in 1..Len(infomap[i].v.m) : infomap[i].v.m[j].v.t # "dict"

C14_NoteRoundTrip ==
    (nt.phase = "parsed" /\ C14_OneLevel(nt.infomap)) =>
        /\ nt.parsed.raised = "none"
        /\ C14_Holds(nt.parsed.nmap, nt.infomap)
        /\ \A i \in 1..Len(nt.infomap) :
              (nt.infomap[i].v.t = "dict" /\ nt.infomap[i].k \notin ReservedRoot) =>
                 /\ nt.infomap[i].k \in DOMAIN nt.parsed.nmap
                 /\ nt.parsed.nmap[nt.infomap[i].k].t = "dict"
                 /\ C14_Holds(nt.parsed.nmap[nt.infomap[i].k].m,
                              nt.infomap[i].v.m)

(***************************************************************************)
(* C15.  For every input map, the text produced by wave_note_generate      *)
(* contains no line and no block section that comes from an entry whose    *)
(* key is debug, strays, axes, name or tmp, whether that entry's value is  *)
(* a scalar or a sub-map; stray lines are emitted only in a stray section. *)
(***************************************************************************)
C15_FromReserved(p) == \E i \in 1..Len(p.path) : p.path[i] \in ReservedRoot

C15_NoReservedEntryInNote ==
    (nt.phase \in {"generated", "parsed"} /\ nt.out.raised = "none") =>
        /\ nt.text = NoteText(nt.out.pieces)
        /\ \A i \in 1..Len(nt.out.pieces) :
              C15_FromReserved(nt.out.pieces[i]) =>
                 nt.out.pieces[i].section = "strays"

(***************************************************************************)
(* C16.  wave_find(s) first tests whether the whole string s names an      *)
(* existing filesystem path and, if so, does not split it on ':';          *)
(* otherwise it takes the part before the first ':' as the archive file    *)
(* and walks the remaining colon-separated components through the scanned  *)
(* tree, returning the wave leaf they name with the offset and size        *)
(* recorded by pack_scan_tree, and raising IOError when the components     *)
(* end at a folder.                                                        *)
(***************************************************************************)
\* What the components path[i..] name in tree: folders lead into their
\* 'sub' tree, the last component names a wave leaf or a folder.
RECURSIVE C16_Named(_, _, _)
C16_Named(tree, path, i) ==
    LET ks == { k \in DOMAIN tree : StripNul(k) = path[i] }
        node == tree[CHOOSE k \in ks : TRUE]
    IN  IF ks = {} THEN [kind |-> "nothing"]
        ELSE IF i = Len(path) THEN [kind |-> node.type, node |-> node]
        ELSE IF node.type = "folder" THEN C16_Named(node.sub, path, i + 1)
        ELSE [kind |-> "nothing"]

C16_BeforeFirstColon(s) ==
    SubSeq(s, 1, (CHOOSE i \in 1..Len(s) :
                     s[i] = COLON /\ \A j \in 1..(i - 1) : s[j] # COLON) - 1)

C16_FindReturnsNamedLeaf ==
    wf.phase = "done" =>
        /\ wf.exists =>
              wf.out.real_filename = wf.filename /\ wf.out.igor_path = << >>
        /\ ~wf.exists =>
              /\ wf.out.real_filename = C16_BeforeFirstColon(wf.filename)
              /\ wf.out.igor_path = wf.path
              /\ C16_Named(sc.tree, wf.path, 1).kind = "wave" =>
                    /\ wf.out.raised = "none"
                    /\ wf.out.tree.node.offset =
                          C16_Named(sc.tree, wf.path, 1).node.offset
                    /\ wf.out.tree.node.size =
                          C16_Named(sc.tree, wf.path, 1).node.size
              /\ C16_Named(sc.tree, wf.path, 1).kind = "folder" =>
                    wf.out.raised = "IOError"

(***************************************************************************)
(* C17.  A DataFolderEnd record (recordType & 0x7FFF == 10) met at the top *)
(* level of pack_scan_tree, with no enclosing folder, ends that scan call  *)
(* without raising, and the call returns the tree of the nodes scanned     *)
(* before that record.                                                     *)
(***************************************************************************)
C17_TopLevelEndMet ==
    /\ sc.phase \in {"scanning", "done"}
    /\ sc.last.kind = "record" /\ sc.last.rec_type_id = 10
    /\ sc.last.depth = 1

C17_TopLevelEndReturnsTree ==
    C17_TopLevelEndMet =>
        /\ sc.phase = "done" /\ sc.raised = "none"
        /\ sc.tree = sc.last.pack_tree

(***************************************************************************)
(* C18.  In pack_scan_tree, every record whose (recordType & 0x7FFF) is    *)
(* not 9 is consumed exactly: if its header starts at position p and       *)
(* carries dataSize d, the next record header is read at p + 8 + d,        *)
(* whether the record is skipped, is a DataFolderEnd or is a Wave, and     *)
(* whether or not the top bit of recordType is set; skipped records add no *)
(* node to the tree.                                                       *)
(***************************************************************************)
C18_RecordMet ==
    /\ sc.phase \in {"scanning", "done"}
    /\ sc.last.kind = "record" /\ sc.last.rec_type_id # 9

C18_RecordConsumedExactly ==
    C18_RecordMet =>
        /\ sc.raised = "none"
        /\ sc.pos = sc.last.p + PackedFileRecordHeaderSize + sc.last.numDataBytes
        /\ (sc.last.rec_type_id \notin {3, 10} /\ sc.phase = "scanning") =>
              sc.stack[sc.last.depth].pack_tree = sc.last.pack_tree

(***************************************************************************)
(* C19.  In pack_scan_tree, each DataFolderStart opens exactly one nested  *)
(* recursion level whose result is stored as that folder's 'sub' tree,     *)
(* each DataFolderEnd returns from exactly one level, and after the return *)
(* the caller continues with the record that follows the DataFolderEnd at  *)
(* sibling level; no record other than DataFolderEnd returns from a level  *)
(* while the stream still has records.                                     *)
(***************************************************************************)
C19_StepTaken == sc.phase \in {"scanning", "done"} /\ sc.last.kind # "none"

\* The activations left after the pass.
C19_Depth == IF sc.phase = "done" THEN 0 ELSE Len(sc.stack)

\* The level that was active before the pass has returned to its caller,
\* which stored its tree as the folder's 'sub' tree.
C19_ReturnedOneLevel ==
    /\ sc.raised = "none"
    /\ C19_Depth = sc.last.depth - 1
    /\ IF sc.last.depth = 1 THEN sc.tree = sc.last.pack_tree
       ELSE /\ sc.last.folder_name \in DOMAIN sc.stack[C19_Depth].pack_tree
            /\ sc.stack[C19_Depth].pack_tree[sc.last.folder_name] =
                  [type |-> "folder", name |-> sc.last.folder_name,
                   sub |-> sc.last.pack_tree]

C19_FolderLevels ==
    C19_StepTaken =>
        /\ (sc.last.kind = "record" /\ sc.last.rec_type_id = 9) =>
              /\ sc.raised = "none" /\ C19_Depth = sc.last.depth + 1
              /\ sc.stack[C19_Depth].pack_tree = EmptyDict
        /\ (sc.last.kind = "record" /\ sc.last.rec_type_id = 10) =>
              /\ C19_ReturnedOneLevel
              /\ sc.pos = sc.last.p + PackedFileRecordHeaderSize
                            + sc.last.numDataBytes
        /\ (sc.last.kind = "record" /\ sc.last.rec_type_id \notin {9, 10}
            /\ sc.raised = "none") =>
              C19_Depth = sc.last.depth
        /\ sc.last.kind = "end of stream" => C19_ReturnedOneLevel

(***************************************************************************)
(* C20.  For every Wave record, pack_scan_tree stores a leaf whose offset  *)
(* is the stream position immediately after the record header (the first   *)
(* byte of the embedded wave's container header) and whose size is the     *)
(* record's dataSize, and it reads from the stream only the wave's         *)
(* container and wave headers, never the wave's payload or trailer.        *)
(***************************************************************************)
C20_WaveRecordMet ==
    /\ sc.phase \in {"scanning", "done"}
    /\ sc.last.kind = "record" /\ sc.last.rec_type_id = 3

\* Where the payload of a version-5 wave stored at offset starts: after the
\* container header and the wave header without its wData field.
C20_PayloadStart(offset) == offset + CheckSumSize5

C20_LeafStored(tree) ==
    \E key \in DOMAIN tree :
        /\ tree[key].type = "wave"
        /\ tree[key].offset = sc.last.p + PackedFileRecordHeaderSize
        /\ tree[key].size = sc.last.numDataBytes

C21_IsHeader(line) ==
    Len(line) > 0 /\ line[1] = LBRACKET /\ line[Len(line)] = RBRACKET

C21_HasEq(line) == \E i \in 1..Len(line) : line[i] = EQ

C21_IsDot(e) == e.in_block /\ e.line = << DOT >>

C21_IsKeyValue(e) ==
    Len(e.line) > 0 /\ ~C21_IsHeader(e.line) /\ C21_HasEq(e.line)

C21_Key(line) ==
    Strip(SubSeq(line, 1, (CHOOSE i \in 1..Len(line) :
                              line[i] = EQ /\ \A j \in 1..(i - 1) : line[j] # EQ) - 1))

\* The block open after line j was read is the one logged with line j + 1.
C21_BlockSteps ==
    \A j \in 1..(Len(nt.log) - 1) :
       LET e == nt.log[j]
           next == nt.log[j + 1]
       IN  /\ C21_IsHeader(e.line) /\ ~C21_IsDot(e) =>
                /\ next.in_block
                /\ next.cur_map_name = SubSeq(e.line, 2, Len(e.line) - 1)
           /\ C21_IsDot(e) => ~next.in_block
           /\ Len(e.line) = 0 =>
                next.in_block = (e.in_block /\ ~nt.strict_blocks)
           /\ C21_IsKeyValue(e) =>
                /\ next.in_block = e.in_block
                /\ e.in_block => next.cur_map_name = e.cur_map_name

C21_BlocksInResult ==
    \A j \in DOMAIN nt.log :
       LET e == nt.log[j]
           nmap == nt.parsed.nmap
       IN  /\ C21_IsHeader(e.line) /\ ~C21_IsDot(e) =>
                LET name == SubSeq(e.line, 2, Len(e.line) - 1)
                IN  name \in DOMAIN nmap /\ nmap[name].t = "dict"
           /\ C21_IsKeyValue(e) =>
                IF e.in_block
                THEN /\ e.cur_map_name \in DOMAIN nmap
                     /\ C21_Key(e.line) \in DOMAIN nmap[e.cur_map_name].m
                ELSE C21_Key(e.line) \in DOMAIN nmap

C21_OpenedBlocksAreInResult ==
    /\ C21_BlockSteps
    /\ (nt.phase = "parsed" /\ nt.parsed.raised = "none") => C21_BlocksInResult

(***************************************************************************)
(* C22: every non-blank line of the note without "=" that is neither a     *)
(* "[name]" header nor a "." closing a block is appended to the root       *)
(* "strays" list in input order, and it closes the open block, so that the *)
(* key=value lines after it go to the root map until the next header.      *)
(***************************************************************************)
C22_IsStray(e) ==
    /\ Len(e.line) > 0 /\ ~C21_HasEq(e.line)
    /\ ~C21_IsHeader(e.line) /\ ~C21_IsDot(e)

C22_StrayAppendedAndBlockClosed ==
    /\ \A j \in 2..Len(nt.log) :
          C22_IsStray(nt.log[j - 1]) => ~nt.log[j].in_block
    /\ (nt.log # << >> /\ C22_IsStray(nt.log[Len(nt.log)])) =>
          LET strays == nt.st.nmap[StraysKey]
          IN  /\ nt.st.raised = "none"
              /\ ~nt.st.in_block
              /\ strays.t = "list" /\ strays.items # << >>
              /\ strays.items[Len(strays.items)]
                    = Item("str", 0, nt.log[Len(nt.log)].line)

(***************************************************************************)
(* C23: a line with one or more "=" is split at the first "=" only: the    *)
(* key is the trimmed text before it and the value is parsed from all of   *)
(* the trimmed text after it, further "=" included.                        *)
(***************************************************************************)
C23_AfterFirstEq(line) ==
    Strip(SubSeq(line, 1 + (CHOOSE i \in 1..Len(line) :
                              line[i] = EQ /\ \A j \in 1..(i - 1) : line[j] # EQ),
                 Len(line)))

C23_ValueIsAllAfterFirstEq ==
    (nt.phase = "parsing" /\ nt.log # << >>
        /\ C21_IsKeyValue(nt.log[Len(nt.log)])) =>
       LET line == nt.log[Len(nt.log)].line
           cur_map == IF nt.st.in_block THEN nt.st.cur_map ELSE nt.st.nmap
       IN  /\ C21_Key(line) \in DOMAIN cur_map
           /\ cur_map[C21_Key(line)] = NoteValue(C23_AfterFirstEq(line))

(***************************************************************************)
(* C24: after pack_unpack on a scanned tree, every Folder node of the      *)
(* tree, a folder without any wave at any depth included, has its          *)
(* subdirectory under the base output directory, at the path made of the   *)
(* names of its ancestors and its own.                                     *)
(***************************************************************************)
RECURSIVE C24_FolderPaths(_, _)
C24_FolderPaths(prefix, tree) ==
    UNION { IF tree[key].type = "folder"
            THEN { Append(prefix, tree[key].name) }
                 \cup C24_FolderPaths(Append(prefix, tree[key].name),
                                      tree[key].sub)
            ELSE { }
            : key \in DOMAIN tree }

C24_EveryFolderHasDirectory ==
    up.phase = "done" => C24_FolderPaths(<< >>, sc.tree) \subseteq up.dirs

(***************************************************************************)
(* C25: for every version-5 file that wave_write produced, whatever the    *)
(* size of the payload (shorter than the 4-byte tail and empty included),  *)
(* wave_read_header followed by wave_read_data consumes exactly the        *)
(* headers and the payload: the payload decoded is the tail bytes of the   *)
(* header followed by the next wave_data_size - tail_size bytes of the     *)
(* stream, and the stream is left at the first byte of the note.           *)
(***************************************************************************)
C25_NoteText == IF rw.note.given THEN rw.note.text ELSE DefaultNoteText

C25_PayloadBytes ==
    SubSeq(rw.out.bytes, BinHeader5Size + WaveHeader5Size - 4 + 1,
           Len(rw.out.bytes) - Len(C25_NoteText))

\* A file written with the Structures in their initial byte order, of an
\* array of one to four dimensions whose dtype is in TYPE_TABLE.
C25_WrittenAndRead ==
    /\ rw.phase = "read"
    /\ rw.before = FreshStructOrder
    /\ Len(rw.wav.shape) >= 1
    /\ WaveWriteTypeId(rw.wav.dtype) # 0

C25_HeadersAndPayloadConsumed ==
    C25_WrittenAndRead =>
       LET h == wave_read_header(rw.out.bytes, 0, rw.before)
       IN  /\ h.raised = "none"
           /\ LET d == wave_read_data(rw.out.bytes, h.pos, h.wave_info, h.bin_info)
                  more == ReadBytes(rw.out.bytes, h.pos,
                             h.bin_info.wave_data_size - h.bin_info.tail_size)
              IN  /\ d.raised = "none"
                  /\ h.bin_info.tail_data \o more = C25_PayloadBytes
                  /\ d.pos = Len(rw.out.bytes) - Len(C25_NoteText)

(***************************************************************************)
(* C26: wave_write emits both headers in the host's native byte order, the *)
(* order in which it computes the checksum and writes the payload, after   *)
(* any sequence of earlier operations, earlier reads of version-5 files in *)
(* the foreign byte order included.                                        *)
(***************************************************************************)
C26_Written ==
    rw.phase \in {"written", "read"} /\ rw.out.raised = "none"

C26_HeadersInNativeOrder ==
    C26_Written =>
       LET bhead == UnpackBinHeader5(rw.out.bytes, NativeOrder)
           whead == UnpackWaveHeader5(rw.out.bytes, BinHeader5Size, NativeOrder)
       IN  /\ bhead.version = 5
           /\ bhead.noteSize = Len(C25_NoteText)
           /\ bhead.wfmSize = Len(rw.out.bytes) - Len(C25_NoteText) - BinHeader5Size
           /\ whead.type = WaveWriteTypeId(rw.wav.dtype)
           /\ whead.nDim = [i \in 1..MAXDIMS |->
                              IF i <= Len(rw.wav.shape) THEN rw.wav.shape[i] ELSE 0]
           /\ rw.out.bytes = wave_write(rw.wav, rw.fpath, rw.autoname, rw.note,
                                        FreshStructOrder).bytes

(***************************************************************************)
(* C27: in every state reached while wave_note_parse_simple runs, and in   *)
(* its result, the entry "strays" of the result map is a list that holds   *)
(* exactly the stray lines read so far, in input order, whatever block     *)
(* names and keys the note has (a block named "strays" and a root key      *)
(* "strays" included).                                                     *)
(***************************************************************************)
C27_StrayLinesRead ==
    LET read == SelectSeq(nt.log, C22_IsStray)
    IN  [j \in 1..Len(read) |-> Item("str", 0, read[j].line)]

C27_StraysIsListOfStrayLines ==
    nt.phase \in {"parsing", "parsed"} =>
       /\ nt.st.raised = "none"
       /\ nt.st.nmap[StraysKey].t = "list"
       /\ nt.st.nmap[StraysKey].items = C27_StrayLinesRead

(***************************************************************************)
(* C28: every operation closes a stream only if it opened it: a stream     *)
(* given by the caller is left open on return and on error, and a file     *)
(* opened from a path is closed on return and on error.                    *)
(***************************************************************************)
C28_ClosedOnlyIfOpened ==
    rw.phase \in {"written", "read", "decoded"} =>
       rw.f.closed = ~rw.f.supplied

(***************************************************************************)
(* C29: a wave_write call that fails, for instance with FormatError for an *)
(* array of more than 4 dimensions, leaves a destination file that already *)
(* exists with its previous content and writes no bytes to it.             *)
(***************************************************************************)
C29_FailedWriteLeavesDestination ==
    (rw.phase = "written" /\ rw.out.raised # "none" /\ rw.dest.exists) =>
       rw.dest_after = rw.dest

(***************************************************************************)
(* C30: wave_find leaves the set of nodes of the scanned tree it is given  *)
(* unchanged: after a call, with or without an in-archive path, every      *)
(* top-level and nested entry of the tree is still a folder or wave node   *)
(* with its original type, name, offset and size, so that pack_unpack on   *)
(* the tree still extracts the same files.                                 *)
(***************************************************************************)
RECURSIVE C30_SameNodes(_, _)
C30_SameNodes(before, after) ==
    /\ DOMAIN after = DOMAIN before
    /\ \A k \in DOMAIN before :
          /\ "type" \in DOMAIN after[k]
          /\ after[k].type = before[k].type
          /\ after[k].name = before[k].name
          /\ IF before[k].type = "folder"
             THEN C30_SameNodes(before[k].sub, after[k].sub)
             ELSE /\ after[k].offset = before[k].offset
                  /\ after[k].size = before[k].size

C30_FindLeavesTreeNodes ==
    wf.phase = "done" =>
       /\ C30_SameNodes(sc.tree, wf.pack_tree)
       /\ pack_unpack(PackFiles[sc.src], << >>, wf.pack_tree)
             = pack_unpack(PackFiles[sc.src], << >>, sc.tree)

====
